---- MODULE Spec2Model ----
(***************************************************************************)
(* Reserve Manager core engine (src/reserve_manager.py): the Account /     *)
(* Tier / Plan data model and the allocation, rebalancing and forecast     *)
(* operations over it.                                                     *)
(*                                                                         *)
(* Money.  The code keeps money in Python floats (dollars) and rounds      *)
(* moves with round(x, 2).  The model keeps money as an integer number of  *)
(* mills (1/10 cent), so that a balance, target, cap or amount may carry a *)
(* fraction of a cent; a weighted share is the exact rational num/den.     *)
(* round(x, 2) is rounding to a multiple of MillsPerCent.  On a value that *)
(* lies exactly half-way between two cents the float result depends on the *)
(* binary representation of the operand (round(0.005, 2) = 0.01 but        *)
(* round(0.015, 2) = 0.01), so a half-way value is rounded either way: the *)
(* set `ups` of a call holds the cent values whose half-way point rounds   *)
(* up.  In the same way a float difference that is 0 in decimals may be a  *)
(* float just above 0 (1.1 - 1.0 - 0.1 > 0): `remaining` is then "dust",   *)
(* still positive to every test and 0.00 once rounded.  `ups` holds        *)
(* DustInWalk when the subtractions of a walk over the tiers leave dust,   *)
(* DustInSplit when those of a split over the accounts do.                 *)
(***************************************************************************)
EXTENDS Integers, Sequences, FiniteSets, TLC

VARIABLES plan, pc, arg, ret, raised, app

vars == <<plan, pc, arg, ret, raised, app>>

\* ----------------------------------------------------------------- bounds
\* Largest amount of cash passed to a call, in whole cents.
MaxAmount == 3
\* Largest allocation weight of an account.
MaxWeight == 2
\* Largest number of months of a forecast.
MaxMonths == 2
\* Largest number of tiers of an edited plan, and of accounts of one of its tiers.
MaxTiers == 2
MaxAccounts == 2
\* Largest number of moves a loop that is followed pass by pass may collect.
MaxMoves == 6
\* The snapshots that differ from the oldest one on the undo stack
MaxSnapshots == 1

\* The month counts of a forecast: the parser takes any int.
Months == -1..MaxMonths

\* Mills in a cent: round(x, 2) keeps whole cents.
MillsPerCent == 10

Cents(c) == c * MillsPerCent

\* ------------------------------------------------------------- Optional[T]
None == <<>>
Some(v) == <<v>>
Val(o) == o[1]

Max(a, b) == IF a >= b THEN a ELSE b
Min(a, b) == IF a <= b THEN a ELSE b

\* ------------------------------------------------------------- round(x, 2)
\* num/den mills (num >= 0, den > 0) rounded to whole cents, in mills.
round2(num, den, ups) ==
    LET c    == num \div (MillsPerCent * den)
        rest == num - c * MillsPerCent * den
    IN  IF 2 * rest < MillsPerCent * den THEN Cents(c)
        ELSE IF 2 * rest > MillsPerCent * den THEN Cents(c + 1)
        ELSE IF c \in ups THEN Cents(c + 1) ELSE Cents(c)

\* ------------------------------------------------------- remaining -= amt
\* The marks of `ups` for a difference left just above 0.
DustInWalk == -1
DustInSplit == -2

\* The marks of `ups` for a difference of half a cent that is a float just
\* above 0.005 (0.125 - 0.12), on the source and on the destination of a move.
AboveHalfOver == -3
AboveHalfUnder == -4

\* ------------------------------------------------------ float("inf"), nan
\* An amount of float("inf"), above every amount, and what inf - inf and
\* inf * 0 give: nan, for which every comparison fails (nan > 0 is False).
Infinity == 1000000000
NaN == -1000000000

\* ----------------------------------------------------------------- Account
Account(name, balance, apy_pct, notes, alloc_weight, account_target) ==
    [name |-> name, balance |-> balance, apy_pct |-> apy_pct, notes |-> notes,
     alloc_weight |-> alloc_weight, account_target |-> account_target]

\* Account.remaining_room: None stands for float("inf").
remaining_room(a) ==
    IF a.account_target = None THEN None
    ELSE Some(Max(0, Val(a.account_target) - a.balance))

\* room > 0
room_positive(a) == remaining_room(a) = None \/ Val(remaining_room(a)) > 0

\* min(x, a.remaining_room) for an integer x
min_room(x, a) ==
    IF remaining_room(a) = None THEN x ELSE Min(x, Val(remaining_room(a)))

\* -------------------------------------------------------------------- Tier
Tier(name, purpose, target, priority, accounts, preferred_account) ==
    [name |-> name, purpose |-> purpose, target |-> target, priority |-> priority,
     accounts |-> accounts, preferred_account |-> preferred_account]

RECURSIVE SumBalances(_)
SumBalances(accounts) ==
    IF accounts = <<>> THEN 0
    ELSE accounts[1].balance + SumBalances(Tail(accounts))

\* Tier.total
total(t) == SumBalances(t.accounts)

\* Tier.gap
gap(t) == Max(0, t.target - total(t))

\* x or default: a value that is missing (None) or falsy (0) yields the default.
or_default(o, default) == IF o = None \/ Val(o) = 0 THEN default ELSE Val(o)

\* Lines 78-86: the fields of an account that add_or_update_account replaces.
update_account(a, balance, apy_pct, notes, alloc_weight, account_target) ==
    [a EXCEPT !.balance = balance,
              !.apy_pct = IF apy_pct # None THEN Val(apy_pct) ELSE @,
              !.notes = IF notes # "" THEN notes ELSE @,
              !.alloc_weight = IF alloc_weight # None THEN Val(alloc_weight) ELSE @,
              !.account_target = IF account_target # None THEN account_target ELSE @]

\* Tier.add_or_update_account: the first account of that name is updated, else
\* a new one is appended.  apy_pct, alloc_weight and account_target are Optional.
add_or_update_account(t, name, balance, apy_pct, notes, alloc_weight, account_target) ==
    LET hits == {i \in 1..Len(t.accounts) : t.accounts[i].name = name}
    IN  IF hits # {}
        THEN LET i == CHOOSE x \in hits : \A y \in hits : x <= y
             IN  [t EXCEPT !.accounts[i] =
                     update_account(@, balance, apy_pct, notes, alloc_weight, account_target)]
        ELSE [t EXCEPT !.accounts =
                 Append(@, Account(name, balance, or_default(apy_pct, 0), notes,
                                   or_default(alloc_weight, 1), account_target))]

\* Faulty variant: the name is stored without looking for the account.
set_preferred_unchecked(t, account_name) ==
    [tier |-> [t EXCEPT !.preferred_account = account_name], raised |-> "none"]

\* Tier.set_preferred.  Returns [tier, raised].
set_preferred(t, account_name) ==
    IF account_name = None
    THEN [tier |-> [t EXCEPT !.preferred_account = None], raised |-> "none"]
    ELSE IF ~\E i \in 1..Len(t.accounts) : t.accounts[i].name = Val(account_name)
    THEN [tier |-> t, raised |-> "KeyError"]
    ELSE [tier |-> [t EXCEPT !.preferred_account = account_name], raised |-> "none"]

\* Faulty variant: the preferred account is not served first.
preferred_step_skipped(t, remaining, ups) ==
    [remaining |-> remaining, dust |-> FALSE, moves |-> <<>>, raised |-> "none"]

\* Lines 112-119: the preferred account first.  st = [remaining, dust, moves,
\* raised].  next(...) over no match raises StopIteration.  An amount that is
\* the account's room in decimals may be a float just above it.
preferred_step(t, remaining, ups) ==
    IF t.preferred_account = None \/ t.preferred_account = Some("")
    THEN [remaining |-> remaining, dust |-> FALSE, moves |-> <<>>, raised |-> "none"]
    ELSE LET hits == SelectSeq(t.accounts, LAMBDA a : a.name = Val(t.preferred_account))
         IN  IF hits = <<>>
             THEN [remaining |-> remaining, dust |-> FALSE, moves |-> <<>>,
                   raised |-> "StopIteration"]
             ELSE LET pa  == hits[1]
                      add == min_room(remaining, pa)
                  IN  IF room_positive(pa) /\ add > 0
                      THEN [remaining |-> remaining - add,
                            dust |-> /\ pa.account_target # None
                                     /\ remaining = Val(remaining_room(pa))
                                     /\ DustInSplit \in ups,
                            moves |-> << <<pa.name, round2(add, 1, ups)>> >>,
                            raised |-> "none"]
                      ELSE [remaining |-> remaining, dust |-> FALSE, moves |-> <<>>,
                            raised |-> "none"]

RECURSIVE SumWeights(_)
\* sum(max(0.0, a.alloc_weight) for a in candidates)
SumWeights(candidates) ==
    IF candidates = <<>> THEN 0
    ELSE Max(0, candidates[1].alloc_weight) + SumWeights(Tail(candidates))

\* Lines 135-141: one candidate of a weighted pass.  The share is taken of the
\* remaining amount as it stands when the candidate is reached.
weighted_share_step(st, a, total_w, ups) ==
    LET num    == st.remaining * Max(0, a.alloc_weight)
        capped == IF remaining_room(a) = None THEN num
                  ELSE Min(num, Val(remaining_room(a)) * total_w)
        add    == IF capped <= 0 THEN 0 ELSE round2(capped, total_w, ups)
    IN  IF add > 0
        THEN [remaining |-> st.remaining - add,
              moves |-> Append(st.moves, <<a.name, add>>),
              progressed |-> TRUE]
        ELSE st

RECURSIVE weighted_pass(_, _, _, _)
\* Lines 134-141: for a in candidates.
weighted_pass(candidates, total_w, st, ups) ==
    IF candidates = <<>> THEN st
    ELSE weighted_pass(Tail(candidates), total_w,
                       weighted_share_step(st, candidates[1], total_w, ups), ups)

\* Lines 122-143 on dust: a candidate of weight 0 is given it (0.00); a
\* weighted share of it rounds to 0.00 and the loop ends.
weighted_split_dust(t, moves) ==
    LET candidates == SelectSeq(t.accounts, room_positive)
    IN  IF candidates # <<>> /\ SumWeights(candidates) <= 0
        THEN Append(moves, <<candidates[1].name, 0>>)
        ELSE moves

RECURSIVE weighted_split(_, _, _, _)
\* Lines 122-143: while remaining > 0.  Returns the moves.
weighted_split(t, remaining, moves, ups) ==
    IF remaining <= 0 THEN moves
    ELSE LET candidates == SelectSeq(t.accounts, room_positive)
             total_w    == SumWeights(candidates)
         IN  IF candidates = <<>> THEN moves
             ELSE IF total_w <= 0
             THEN LET a   == candidates[1]
                      add == min_room(remaining, a)
                  IN  Append(moves, <<a.name, round2(add, 1, ups)>>)
             ELSE LET st == weighted_pass(candidates, total_w,
                                [remaining |-> remaining, moves |-> moves,
                                 progressed |-> FALSE], ups)
                  IN  IF st.progressed
                      THEN weighted_split(t, st.remaining, st.moves, ups)
                      ELSE moves

\* Lines 122-143: one pass of while remaining > 0, for a remaining amount that
\* is finite.  Returns [remaining, moves, done]; done tells that the pass left
\* the loop with break.
weighted_split_pass(t, remaining, moves, ups) ==
    LET candidates == SelectSeq(t.accounts, room_positive)
        total_w    == SumWeights(candidates)
    IN  IF candidates = <<>>
        THEN [remaining |-> remaining, moves |-> moves, done |-> TRUE]
        ELSE IF total_w <= 0
        THEN LET a   == candidates[1]
                 add == min_room(remaining, a)
             IN  [remaining |-> remaining - add,
                  moves |-> Append(moves, <<a.name, round2(add, 1, ups)>>),
                  done |-> TRUE]
        ELSE LET st == weighted_pass(candidates, total_w,
                           [remaining |-> remaining, moves |-> moves,
                            progressed |-> FALSE], ups)
             IN  [remaining |-> st.remaining, moves |-> st.moves,
                  done |-> ~st.progressed]

\* Lines 135-141 for a remaining amount of inf or nan: a weight of 0 gives a
\* share of nan and a share of nan is skipped (min(nan, room) is nan, and
\* nan > 0 is False); a share of inf is cut to the room, and inf less a room is
\* inf, while inf less inf is nan.
infinite_share_step(st, a, ups) ==
    IF st.remaining = NaN \/ Max(0, a.alloc_weight) = 0 THEN st
    ELSE IF remaining_room(a) = None
    THEN [remaining |-> NaN, moves |-> Append(st.moves, <<a.name, Infinity>>),
          progressed |-> TRUE]
    ELSE LET add == round2(Val(remaining_room(a)), 1, ups)
         IN  IF add > 0
             THEN [remaining |-> Infinity, moves |-> Append(st.moves, <<a.name, add>>),
                   progressed |-> TRUE]
             ELSE st

RECURSIVE infinite_pass(_, _, _)
\* Lines 134-141: for a in candidates, on inf.
infinite_pass(candidates, st, ups) ==
    IF candidates = <<>> THEN st
    ELSE infinite_pass(Tail(candidates), infinite_share_step(st, candidates[1], ups), ups)

\* Lines 122-143: one pass of while remaining > 0, for a remaining amount of
\* inf.  Returns [remaining, moves, done].
infinite_split_pass(t, moves, ups) ==
    LET candidates == SelectSeq(t.accounts, room_positive)
        total_w    == SumWeights(candidates)
    IN  IF candidates = <<>>
        THEN [remaining |-> Infinity, moves |-> moves, done |-> TRUE]
        ELSE IF total_w <= 0
        THEN LET a == candidates[1]
             IN  IF remaining_room(a) = None
                 THEN [remaining |-> NaN, moves |-> Append(moves, <<a.name, Infinity>>),
                       done |-> TRUE]
                 ELSE [remaining |-> Infinity,
                       moves |-> Append(moves, <<a.name,
                                     round2(Val(remaining_room(a)), 1, ups)>>),
                       done |-> TRUE]
        ELSE LET st == infinite_pass(candidates,
                           [remaining |-> Infinity, moves |-> moves,
                            progressed |-> FALSE], ups)
             IN  [remaining |-> st.remaining, moves |-> st.moves,
                  done |-> ~st.progressed]

\* Lines 112-119 for an amount of inf: min(inf, room) is the room.
infinite_preferred_step(t, ups) ==
    IF t.preferred_account = None \/ t.preferred_account = Some("")
    THEN [remaining |-> Infinity, dust |-> FALSE, moves |-> <<>>, raised |-> "none"]
    ELSE LET hits == SelectSeq(t.accounts, LAMBDA a : a.name = Val(t.preferred_account))
         IN  IF hits = <<>>
             THEN [remaining |-> Infinity, dust |-> FALSE, moves |-> <<>>,
                   raised |-> "StopIteration"]
             ELSE IF ~room_positive(hits[1])
             THEN [remaining |-> Infinity, dust |-> FALSE, moves |-> <<>>, raised |-> "none"]
             ELSE IF remaining_room(hits[1]) = None
             THEN [remaining |-> NaN, dust |-> FALSE,
                   moves |-> << <<hits[1].name, Infinity>> >>, raised |-> "none"]
             ELSE [remaining |-> Infinity, dust |-> FALSE,
                   moves |-> << <<hits[1].name,
                                  round2(Val(remaining_room(hits[1])), 1, ups)>> >>,
                   raised |-> "none"]

\* Tier.allocate_into_accounts.  Returns [moves, raised].
allocate_into_accounts(t, amount, ups) ==
    LET remaining == Max(0, amount)
    IN  IF remaining <= 0 \/ t.accounts = <<>>
        THEN [moves |-> <<>>, raised |-> "none"]
        ELSE LET p == preferred_step(t, remaining, ups)
             IN  IF p.raised # "none"
                 THEN [moves |-> <<>>, raised |-> p.raised]
                 ELSE [moves |-> IF p.dust THEN weighted_split_dust(t, p.moves)
                                 ELSE weighted_split(t, p.remaining, p.moves, ups),
                       raised |-> "none"]

\* Tier.allocate_into_accounts on dust: the preferred account with room takes
\* it whole (0.00), else the split of lines 122-143 runs on it.
allocate_dust(t) ==
    IF t.accounts = <<>> THEN [moves |-> <<>>, raised |-> "none"]
    ELSE LET p == preferred_step(t, 0, {})
             hits == SelectSeq(t.accounts, LAMBDA a : Some(a.name) = t.preferred_account)
         IN  IF p.raised # "none"
             THEN [moves |-> <<>>, raised |-> p.raised]
             ELSE IF hits # <<>> /\ room_positive(hits[1])
             THEN [moves |-> << <<hits[1].name, 0>> >>, raised |-> "none"]
             ELSE [moves |-> weighted_split_dust(t, <<>>), raised |-> "none"]

\* -------------------------------------------------------------------- Plan
Plan(tiers) == [tiers |-> tiers]

\* The indices of the tiers named n, and the first of them.
TiersNamed(p, n) == {k \in 1..Len(p.tiers) : p.tiers[k].name = n}
FirstNamed(p, n) == CHOOSE k \in TiersNamed(p, n) : \A j \in TiersNamed(p, n) : k <= j

\* Plan.by_name.  Returns [tier, raised], the tier as an index into Plan.tiers.
by_name(p, name) ==
    IF TiersNamed(p, name) = {} THEN [tier |-> 0, raised |-> "KeyError"]
    ELSE [tier |-> FirstNamed(p, name), raised |-> "none"]

\* [t for t in plan.tiers if t.name != name]
without_tier(p, name) == Plan(SelectSeq(p.tiers, LAMBDA t : t.name # name))

\* [a for a in tier.accounts if a.name != name]
without_account(t, name) == [t EXCEPT !.accounts = SelectSeq(@, LAMBDA a : a.name # name)]

\* plan.tiers.append(Tier(name, purpose, target, priority)): no accounts, no
\* preferred account.
append_tier(p, name, purpose, target, priority) ==
    Plan(Append(p.tiers, Tier(name, purpose, target, priority, <<>>, None)))

\* The tier that edit_account and delete_account of the application find for a
\* row (tier name, account name) of the accounts tree: the loop over the tiers
\* is not left on a match, so the last tier of that name holding such an
\* account.  0 when there is none ("Account not found").
tier_of_row(p, tier_name, account_name) ==
    LET hits == {k \in TiersNamed(p, tier_name) :
                    \E i \in 1..Len(p.tiers[k].accounts) :
                        p.tiers[k].accounts[i].name = account_name}
    IN  IF hits = {} THEN 0 ELSE CHOOSE k \in hits : \A j \in hits : j <= k

\* ProApp.delete_account / AccountDialog.delete_account on the account named
\* account_name of tier k: the accounts of that name leave the tier; nothing
\* else of the tier changes.
delete_account(p, k, account_name) ==
    Plan([p.tiers EXCEPT ![k] = without_account(@, account_name)])

\* AccountDialog.save_account in edit mode, on account i of tier k: the account
\* takes the name of the form; when the tier of the form (the first of that
\* name) is another one, the accounts of the new name leave tier k and the
\* edited account is appended to the tier of the form.
save_account_edit(p, k, i, name, tier_name) ==
    LET account == [p.tiers[k].accounts[i] EXCEPT !.name = name]
        renamed == [p.tiers EXCEPT ![k].accounts[i] = account]
        to      == FirstNamed(p, tier_name)
    IN  IF p.tiers[k].name # tier_name
        THEN Plan([renamed EXCEPT ![k] = without_account(@, name),
                                  ![to].accounts = Append(@, account)])
        ELSE Plan(renamed)

\* TierManagementDialog.save_tier_changes on tier k: the fields of the form
\* replace those of the tier.
save_tier_changes(p, k, name, purpose, target, priority, preferred) ==
    Plan([p.tiers EXCEPT ![k] = [@ EXCEPT !.name = name, !.purpose = purpose,
                                          !.target = target, !.priority = priority,
                                          !.preferred_account = preferred]])

\* One row of ProApp.import_csv_accounts: the first tier of that name, or a new
\* tier appended for it, takes the account.
import_csv_row(p, tier_name, account_name, balance) ==
    LET q == IF TiersNamed(p, tier_name) # {} THEN p
             ELSE append_tier(p, tier_name, "Imported", 0, Len(p.tiers) + 1)
        k == FirstNamed(q, tier_name)
    IN  Plan([q.tiers EXCEPT ![k] =
                 add_or_update_account(@, account_name, balance, Some(0), "", Some(1), None)])

RECURSIVE InsertByPriority(_, _)
\* Faulty variant: t placed before a tier of the same priority (an unstable sort).
InsertBeforeEqual(sorted, t) ==
    IF sorted = <<>> THEN <<t>>
    ELSE IF sorted[1].priority < t.priority
    THEN <<sorted[1]>> \o InsertByPriority(Tail(sorted), t)
    ELSE <<t>> \o sorted

\* t placed after every tier whose priority is not larger (a stable sort).
InsertByPriority(sorted, t) ==
    IF sorted = <<>> THEN <<t>>
    ELSE IF sorted[1].priority <= t.priority
    THEN <<sorted[1]>> \o InsertByPriority(Tail(sorted), t)
    ELSE <<t>> \o sorted

RECURSIVE SortTiers(_, _)
SortTiers(tiers, acc) ==
    IF tiers = <<>> THEN acc
    ELSE SortTiers(Tail(tiers), InsertByPriority(acc, tiers[1]))

\* Plan.sorted_by_priority: sorted(self.tiers, key=lambda t: t.priority)
sorted_by_priority(p) == SortTiers(p.tiers, <<>>)

\* The tier names that contain "Tier 4" and the purposes that contain "Growth".
NamesWithTier4 == {"Tier 4"}
PurposesWithGrowth == {"Growth"}

\* "Tier 4" in t.name or "Growth" in t.purpose
is_growth(t) == t.name \in NamesWithTier4 \/ t.purpose \in PurposesWithGrowth

\* next((t for t in self.sorted_by_priority() if ...), None)
growth_tier(p) ==
    LET hits == SelectSeq(sorted_by_priority(p), is_growth)
    IN  IF hits = <<>> THEN None ELSE Some(hits[1])

\* Faulty variant: the tier is given its whole gap, whatever cash remains.
plan_tier_step_whole_gap(st, tier, ups) ==
    IF st.remaining <= 0 \/ gap(tier) <= 0 THEN st
    ELSE [remaining |-> st.remaining - gap(tier), dust |-> FALSE,
          moves |-> Append(st.moves, <<tier.name, round2(gap(tier), 1, ups)>>)]

\* Faulty variant: the tier is given all the remaining cash, whatever its gap.
plan_tier_step_all_cash(st, tier, ups) ==
    IF st.remaining <= 0 \/ gap(tier) <= 0 THEN st
    ELSE [remaining |-> 0, dust |-> FALSE,
          moves |-> Append(st.moves, <<tier.name, round2(st.remaining, 1, ups)>>)]

\* Lines 172-180: one tier of the tier-level waterfall.
\* st = [remaining, dust, moves].  The loop breaks once remaining <= 0;
\* remaining does not change after that.  A tier reached with dust is given it
\* (0.00), which leaves exactly 0; a tier whose gap is the remaining cash in
\* decimals may leave dust.
plan_tier_step(st, tier, ups) ==
    IF st.remaining <= 0 /\ ~st.dust THEN st
    ELSE LET need == gap(tier)
             amt  == Min(st.remaining, need)
         IN  IF need <= 0 THEN st
             ELSE IF st.dust
             THEN [remaining |-> 0, dust |-> FALSE,
                   moves |-> Append(st.moves, <<tier.name, 0>>)]
             ELSE IF amt > 0
             THEN [remaining |-> st.remaining - amt,
                   dust |-> st.remaining = need /\ DustInWalk \in ups,
                   moves |-> Append(st.moves, <<tier.name, round2(amt, 1, ups)>>)]
             ELSE st

RECURSIVE plan_waterfall(_, _, _)
\* Lines 171-180: for tier in self.sorted_by_priority().
plan_waterfall(tiers, st, ups) ==
    IF tiers = <<>> THEN st
    ELSE plan_waterfall(Tail(tiers), plan_tier_step(st, tiers[1], ups), ups)

\* Lines 181-184: the leftover goes to the growth tier.
plan_leftover(p, st, ups) ==
    IF (st.remaining > 0 \/ st.dust) /\ growth_tier(p) # None
    THEN Append(st.moves, <<Val(growth_tier(p)).name, round2(st.remaining, 1, ups)>>)
    ELSE st.moves

\* Faulty variant: the magnitude of new_cash is allocated (abs for max(0.0, _)).
allocation_plan_magnitude(p, new_cash, ups) ==
    plan_leftover(p, plan_waterfall(sorted_by_priority(p),
                        [remaining |-> IF new_cash < 0 THEN -new_cash ELSE new_cash,
                         dust |-> FALSE, moves |-> <<>>], ups), ups)

\* Plan.allocation_plan.  Returns the moves.
allocation_plan(p, new_cash, ups) ==
    plan_leftover(p, plan_waterfall(sorted_by_priority(p),
                        [remaining |-> Max(0, new_cash), dust |-> FALSE,
                         moves |-> <<>>], ups), ups)

\* (tier.name, acc_name, round(acc_amt, 2)) for each split
tag_splits(tier, splits) == [i \in 1..Len(splits) |-> <<tier.name, splits[i][1], splits[i][2]>>]

\* Faulty variant: no fallback to the first account when nothing is split.
detailed_tier_step_without_fallback(st, tier, ups) ==
    IF st.raised # "none" \/ (st.remaining <= 0 /\ ~st.dust) THEN st
    ELSE LET need == gap(tier)
             amt  == Min(st.remaining, need)
             res  == IF st.dust THEN allocate_dust(tier)
                     ELSE allocate_into_accounts(tier, amt, ups)
         IN  IF need <= 0 \/ (amt <= 0 /\ ~st.dust) THEN st
             ELSE IF res.raised # "none"
             THEN [st EXCEPT !.raised = res.raised]
             ELSE [remaining |-> st.remaining - amt,
                   dust |-> /\ ~st.dust
                            /\ st.remaining = need
                            /\ DustInWalk \in ups,
                   moves |-> st.moves \o tag_splits(tier, res.moves),
                   raised |-> "none"]

\* Lines 192-206: one tier of the detailed waterfall.
\* st = [remaining, dust, moves, raised].
detailed_tier_step(st, tier, ups) ==
    IF st.raised # "none" \/ (st.remaining <= 0 /\ ~st.dust) THEN st
    ELSE LET need == gap(tier)
             amt  == Min(st.remaining, need)
             res  == IF st.dust THEN allocate_dust(tier)
                     ELSE allocate_into_accounts(tier, amt, ups)
             splits == IF res.moves = <<>> /\ tier.accounts # <<>>
                       THEN << <<tier.accounts[1].name, round2(amt, 1, ups)>> >>
                       ELSE res.moves
         IN  IF need <= 0 \/ (amt <= 0 /\ ~st.dust) THEN st
             ELSE IF res.raised # "none"
             THEN [st EXCEPT !.raised = res.raised]
             ELSE [remaining |-> st.remaining - amt,
                   dust |-> /\ ~st.dust
                            /\ st.remaining = need
                            /\ DustInWalk \in ups,
                   moves |-> st.moves \o tag_splits(tier, splits),
                   raised |-> "none"]

RECURSIVE detailed_waterfall(_, _, _)
\* Lines 191-206: for tier in self.sorted_by_priority().
detailed_waterfall(tiers, st, ups) ==
    IF tiers = <<>> THEN st
    ELSE detailed_waterfall(Tail(tiers), detailed_tier_step(st, tiers[1], ups), ups)

\* Faulty variant: the leftover's entries replace what the walk gave the growth
\* tier.
detailed_leftover_replacing(p, st, ups) ==
    IF st.raised # "none" \/ st.remaining <= 0 \/ growth_tier(p) = None
    THEN st
    ELSE LET growth == Val(growth_tier(p))
             res    == allocate_into_accounts(growth, st.remaining, ups)
         IN  IF res.raised # "none"
             THEN [st EXCEPT !.raised = res.raised]
             ELSE [st EXCEPT !.moves = SelectSeq(st.moves, LAMBDA m : m[1] # growth.name)
                                       \o tag_splits(growth, res.moves)]

\* Lines 207-215: the leftover is split over the growth tier's accounts.
detailed_leftover(p, st, ups) ==
    IF st.raised # "none" \/ (st.remaining <= 0 /\ ~st.dust) \/ growth_tier(p) = None
    THEN st
    ELSE LET growth == Val(growth_tier(p))
             res    == IF st.dust THEN allocate_dust(growth)
                       ELSE allocate_into_accounts(growth, st.remaining, ups)
             splits == IF res.moves = <<>> /\ growth.accounts # <<>>
                       THEN << <<growth.accounts[1].name, round2(st.remaining, 1, ups)>> >>
                       ELSE res.moves
         IN  IF res.raised # "none"
             THEN [st EXCEPT !.raised = res.raised]
             ELSE [st EXCEPT !.moves = st.moves \o tag_splits(growth, splits)]

\* Plan.allocation_plan_detailed.  Returns [moves, raised].  The leftover is
\* what line 206 subtracted down to (0.03 - 0.02 is a float below 0.01), so
\* its half-way values round on their own: `ups_left`.
allocation_plan_detailed(p, new_cash, ups, ups_left) ==
    LET st == detailed_leftover(p, detailed_waterfall(sorted_by_priority(p),
                    [remaining |-> Max(0, new_cash), dust |-> FALSE, moves |-> <<>>,
                     raised |-> "none"],
                    ups), ups_left)
    IN  [moves |-> IF st.raised = "none" THEN st.moves ELSE <<>>, raised |-> st.raised]

\* Faulty variant: every tier with a target counts as underfunded by its target.
under_list_by_target(p) ==
    LET ts == SelectSeq(sorted_by_priority(p), LAMBDA t : t.target > 0)
    IN  [k \in 1..Len(ts) |-> [tier |-> ts[k].name, amt |-> ts[k].target]]

\* Lines 219-220: the (tier, amount) lists of rebalancing_moves.
under_list(p) ==
    LET ts == SelectSeq(sorted_by_priority(p), LAMBDA t : gap(t) > 0)
    IN  [k \in 1..Len(ts) |-> [tier |-> ts[k].name, amt |-> gap(ts[k])]]

\* Faulty variant: the overfunded tiers in priority order.
over_list_by_priority(p) ==
    LET ts == SelectSeq(sorted_by_priority(p), LAMBDA t : total(t) > t.target)
    IN  [k \in 1..Len(ts) |-> [tier |-> ts[k].name, amt |-> total(ts[k]) - ts[k].target]]

over_list(p) ==
    LET ts == SelectSeq(p.tiers, LAMBDA t : total(t) > t.target)
    IN  [k \in 1..Len(ts) |-> [tier |-> ts[k].name, amt |-> total(ts[k]) - ts[k].target]]

\* Faulty variant: the excess of the source is not decremented (line 231 left
\* out); the walk moves on with the destinations only.
rebalance_step_keeping_excess(st, ups) ==
    LET excess == st.over[st.i].amt
        need   == st.under[st.j].amt
        least  == Min(excess, need)
        amt    == IF least <= 0 THEN 0
                  ELSE IF (st.i + st.j) \in ups
                  THEN round2(least, 1, {least \div MillsPerCent})
                  ELSE round2(least, 1, {})
    IN  [over  |-> st.over,
         under |-> st.under,
         i     |-> st.i,
         j     |-> st.j + 1,
         above |-> st.above,
         moves |-> IF amt > 0
                   THEN Append(st.moves, << <<st.over[st.i].tier, st.under[st.j].tier>>, amt >>)
                   ELSE st.moves]

\* excess <= 0.005 (need <= 0.005) fails: v is what is left, above tells that
\* the entry was left just above half a cent before, touched that the iteration
\* subtracted from it, and rounded that it is the amount the iteration rounded.
\* Half a cent is above 0.005 or not, unless it has just rounded down to 0.00.
above_half(v, above, touched, rounded, mark, ups) ==
    IF 2 * v # MillsPerCent THEN 2 * v > MillsPerCent
    ELSE IF touched THEN mark \in ups
    ELSE above \/ (mark \in ups /\ ~rounded)

\* Lines 226-238: one iteration of the walk.  st = [over, under, i, j, above,
\* moves], i and j counted from 1; above tells of each current entry whether it
\* is half a cent and a float just above 0.005, which rounds up to 0.01.  A
\* half-way amount rounds up when i + j is in ups: two amounts of the same
\* decimals are two floats.  A move f"{from} -> {to}" is the pair <<from, to>>.
rebalance_step(st, ups) ==
    LET excess == st.over[st.i].amt
        need   == st.under[st.j].amt
        least  == Min(excess, need)
        least_above == IF excess < need THEN st.above.over
                       ELSE IF need < excess THEN st.above.under
                       ELSE st.above.over /\ st.above.under
        amt    == IF least <= 0 THEN 0
                  ELSE IF least_above \/ (st.i + st.j) \in ups
                  THEN round2(least, 1, {least \div MillsPerCent})
                  ELSE round2(least, 1, {})
        excess2 == IF amt > 0 THEN excess - amt ELSE excess
        need2   == IF amt > 0 THEN need - amt ELSE need
        over_stays  == above_half(excess2, st.above.over, amt > 0, excess <= need,
                                  AboveHalfOver, ups)
        under_stays == above_half(need2, st.above.under, amt > 0, need <= excess,
                                  AboveHalfUnder, ups)
    IN  [over  |-> [st.over EXCEPT ![st.i].amt = excess2],
         under |-> [st.under EXCEPT ![st.j].amt = need2],
         i     |-> IF over_stays THEN st.i ELSE st.i + 1,
         j     |-> IF under_stays THEN st.j ELSE st.j + 1,
         above |-> [over  |-> over_stays /\ 2 * excess2 = MillsPerCent,
                    under |-> under_stays /\ 2 * need2 = MillsPerCent],
         moves |-> IF amt > 0
                   THEN Append(st.moves, << <<st.over[st.i].tier, st.under[st.j].tier>>, amt >>)
                   ELSE st.moves]

RECURSIVE rebalance_walk(_, _)
\* Lines 225-238: while i < len(over) and j < len(under).
rebalance_walk(st, ups) ==
    IF st.i <= Len(st.over) /\ st.j <= Len(st.under)
    THEN rebalance_walk(rebalance_step(st, ups), ups)
    ELSE st.moves

\* Plan.rebalancing_moves.  Returns the moves.
rebalancing_moves(p, ups) ==
    IF under_list(p) = <<>> \/ over_list(p) = <<>> THEN <<>>
    ELSE rebalance_walk([over |-> over_list(p), under |-> under_list(p),
                         i |-> 1, j |-> 1,
                         above |-> [over |-> FALSE, under |-> FALSE],
                         moves |-> <<>>], ups)

\* A growth figure is the exact rational num/den mills.
\* Account.expected_growth with apy_pct in whole percent:
\* balance * ((1 + apy_pct/1200) ** months - 1)
\* Faulty variant: only the month count is checked.
expected_growth_any_account(a, months) ==
    IF months <= 0
    THEN [num |-> 0, den |-> 1]
    ELSE [num |-> a.balance * ((12 * 100 + a.apy_pct) ^ months - (12 * 100) ^ months),
          den |-> (12 * 100) ^ months]

\* Faulty variant: simple interest, the yield of one month times the months.
expected_growth_simple_interest(a, months) ==
    IF a.apy_pct <= 0 \/ a.balance <= 0 \/ months <= 0
    THEN [num |-> 0, den |-> 1]
    ELSE [num |-> a.balance * a.apy_pct * months * (12 * 100) ^ (months - 1),
          den |-> (12 * 100) ^ months]

expected_growth(a, months) ==
    IF a.apy_pct <= 0 \/ a.balance <= 0 \/ months <= 0
    THEN [num |-> 0, den |-> 1]
    ELSE [num |-> a.balance * ((12 * 100 + a.apy_pct) ^ months - (12 * 100) ^ months),
          den |-> (12 * 100) ^ months]

\* x + y for growth figures of one forecast: the denominators are equal, or
\* one of the figures is 0.
growth_add(x, y) ==
    IF x.num = 0 THEN y
    ELSE IF y.num = 0 THEN x
    ELSE [num |-> x.num + y.num, den |-> x.den]

RECURSIVE SumGrowth(_, _)
\* sum(a.expected_growth(months) for a in t.accounts)
SumGrowth(accounts, months) ==
    IF accounts = <<>> THEN [num |-> 0, den |-> 1]
    ELSE growth_add(expected_growth(accounts[1], months),
                    SumGrowth(Tail(accounts), months))

\* Plan.forecast: a dict keyed by tier name (a later tier of the same name
\* replaces an earlier one).
forecast(p, months) ==
    [n \in {p.tiers[k].name : k \in 1..Len(p.tiers)} |->
        LET last == CHOOSE k \in 1..Len(p.tiers) :
                        /\ p.tiers[k].name = n
                        /\ \A m \in 1..Len(p.tiers) : p.tiers[m].name = n => m <= k
        IN  SumGrowth(p.tiers[last].accounts, months)]

RECURSIVE Gcd(_, _)
Gcd(x, y) == IF y = 0 THEN x ELSE Gcd(y, x % y)

RECURSIVE compound_down(_, _, _, _)
\* v * (n / d) ** months, every month rounded down to a mill.
compound_down(v, n, d, months) ==
    IF months = 0 THEN v ELSE compound_down((v * n) \div d, n, d, months - 1)

RECURSIVE compound_up(_, _, _, _)
\* v * (n / d) ** months, every month rounded up to a mill.
compound_up(v, n, d, months) ==
    IF months = 0 THEN v ELSE compound_up((v * n + d - 1) \div d, n, d, months - 1)

\* Account.expected_growth for balances and month counts whose exact fraction
\* is out of reach: the whole mills that enclose
\* balance * ((1 + apy_pct/1200) ** months - 1), with 1 + apy_pct/1200 in
\* lowest terms.
expected_growth_enclosure(a, months) ==
    IF a.apy_pct <= 0 \/ a.balance <= 0 \/ months <= 0
    THEN [low |-> 0, high |-> 0]
    ELSE LET g == Gcd(12 * 100 + a.apy_pct, 12 * 100)
             n == (12 * 100 + a.apy_pct) \div g
             d == (12 * 100) \div g
         IN  [low |-> compound_down(a.balance, n, d, months) - a.balance,
              high |-> compound_up(a.balance, n, d, months) - a.balance]

\* ------------------------------------------------------------- persistence
\* A JSON value: null, a number or a string, tagged with its type; a JSON
\* object is a record of JSON values and a JSON array a sequence of them.
JsonNull == [type |-> "null"]
JsonNumber(x) == [type |-> "number", value |-> x]
JsonString(x) == [type |-> "string", value |-> x]

\* json.dump of an Optional[float] and of an Optional[str]: None is null.
JsonOptionalNumber(o) == IF o = None THEN JsonNull ELSE JsonNumber(Val(o))
JsonOptionalString(o) == IF o = None THEN JsonNull ELSE JsonString(Val(o))

\* Faulty variant: a falsy value (0, "") is read as None (d.get(key) or None).
FromJsonOptionalOrNone(j) ==
    IF j.type = "null" \/ j = JsonNumber(0) \/ j = JsonString("") THEN None ELSE Some(j.value)

\* json.load of a value that may be null: null is None.
FromJsonOptional(j) == IF j.type = "null" THEN None ELSE Some(j.value)

\* d.get(key, default) for a key whose value is a number or a string, and
\* d.get(key) for one whose value may be null.
get(d, key, default) == IF key \in DOMAIN d THEN d[key].value ELSE default
get_optional(d, key) == IF key \in DOMAIN d THEN FromJsonOptional(d[key]) ELSE None

\* asdict(a) (save_plan), and the account entry of plan_to_dict: the same keys.
account_to_dict(a) ==
    [name |-> JsonString(a.name), balance |-> JsonNumber(a.balance),
     apy_pct |-> JsonNumber(a.apy_pct), notes |-> JsonString(a.notes),
     alloc_weight |-> JsonNumber(a.alloc_weight),
     account_target |-> JsonOptionalNumber(a.account_target)]

\* The tier entry of save_plan and of plan_to_dict: the same keys.
tier_to_dict(t) ==
    [name |-> JsonString(t.name), purpose |-> JsonString(t.purpose),
     target |-> JsonNumber(t.target), priority |-> JsonNumber(t.priority),
     preferred_account |-> JsonOptionalString(t.preferred_account),
     accounts |-> [i \in 1..Len(t.accounts) |-> account_to_dict(t.accounts[i])]]

\* The payload save_plan writes: the date of the day for last_updated.
save_plan(p) ==
    [tiers |-> [k \in 1..Len(p.tiers) |-> tier_to_dict(p.tiers[k])],
     last_updated |-> JsonString("today")]

\* plan_to_dict (reserve_manager_enhanced.py)
plan_to_dict(p) ==
    [schema_version |-> JsonString("2.0"),
     tiers |-> [k \in 1..Len(p.tiers) |-> tier_to_dict(p.tiers[k])],
     last_updated |-> JsonString("today")]

\* The Account that load_plan and dict_to_plan build from an entry.
dict_to_account(a) ==
    Account(a.name.value, get(a, "balance", 0), get(a, "apy_pct", 0), get(a, "notes", ""),
            get(a, "alloc_weight", 1), get_optional(a, "account_target"))

\* t.get("accounts", [])
accounts_of_dict(t) ==
    IF "accounts" \in DOMAIN t
    THEN [i \in 1..Len(t.accounts) |-> dict_to_account(t.accounts[i])]
    ELSE <<>>

\* load_plan on a payload: name, purpose, target and priority are indexed.
load_plan(data) ==
    Plan([k \in 1..Len(data.tiers) |->
            LET t == data.tiers[k]
            IN  Tier(t.name.value, t.purpose.value, t.target.value, t.priority.value,
                     accounts_of_dict(t), get_optional(t, "preferred_account"))])

\* dict_to_plan: only the name is indexed.
dict_to_plan(data) ==
    Plan(IF "tiers" \in DOMAIN data
         THEN [k \in 1..Len(data.tiers) |->
                 LET t == data.tiers[k]
                 IN  Tier(t.name.value, get(t, "purpose", ""), get(t, "target", 0),
                          get(t, "priority", 1), accounts_of_dict(t),
                          get_optional(t, "preferred_account"))]
         ELSE <<>>)

\* ------------------------------------------------------------- application
\* The state of ProApp beside its plan: the undo stack (JSON snapshots, the
\* latest last), the data_changed flag, the payload last written to
\* CONFIG_PATH, the transactions logged in the history, and the moves an
\* allocation dialog has previewed.  The models of the engine and of its
\* editing leave the application untracked.
Untracked == [tracked |-> FALSE]

App(undo_stack, data_changed, saved, transactions, pending_moves) ==
    [tracked |-> TRUE, undo_stack |-> undo_stack, data_changed |-> data_changed,
     saved |-> saved, transactions |-> transactions, pending_moves |-> pending_moves]

\* Line 2655: the undo stack keeps the 50 latest snapshots.
UndoLimit == 50

\* ProApp.save_snapshot
save_snapshot(a, p) ==
    IF ~a.tracked THEN a
    ELSE LET pushed == Append(a.undo_stack, plan_to_dict(p))
         IN  [a EXCEPT !.undo_stack = IF Len(pushed) > UndoLimit THEN Tail(pushed)
                                      ELSE pushed]

\* ProApp.mark_data_changed
mark_data_changed(a) ==
    IF ~a.tracked THEN a ELSE [a EXCEPT !.data_changed = TRUE]

\* The first account of that name in the first tier of that name takes the
\* amount (lines 1710-1717 of apply_allocation).  Returns [plan, found].
apply_move(p, tier_name, account_name, amount) ==
    IF TiersNamed(p, tier_name) = {} THEN [plan |-> p, found |-> FALSE]
    ELSE LET k    == FirstNamed(p, tier_name)
             hits == {i \in 1..Len(p.tiers[k].accounts) :
                         p.tiers[k].accounts[i].name = account_name}
         IN  IF hits = {} THEN [plan |-> p, found |-> FALSE]
             ELSE LET i == CHOOSE x \in hits : \A y \in hits : x <= y
                  IN  [plan |-> Plan([p.tiers EXCEPT ![k].accounts[i].balance = @ + amount]),
                       found |-> TRUE]

\* The place of tier k of plan p in sorted_by_priority (a stable sort), and the
\* tier indices in that order.
place_by_priority(p, k) ==
    1 + Cardinality({j \in 1..Len(p.tiers) :
            \/ p.tiers[j].priority < p.tiers[k].priority
            \/ p.tiers[j].priority = p.tiers[k].priority /\ j < k})
in_priority_order(p) ==
    [r \in 1..Len(p.tiers) |-> CHOOSE k \in 1..Len(p.tiers) : place_by_priority(p, k) = r]

\* TierManagementDialog.move_tier, lines 574-588: the tier selected at `index`
\* of the list in priority order swaps its priority with its neighbour.
\* Returns [plan, moved].
move_tier(p, index, direction) ==
    LET tiers == in_priority_order(p)
        other == IF direction < 0 /\ index > 1 THEN index - 1
                 ELSE IF direction > 0 /\ index < Len(tiers) THEN index + 1
                 ELSE 0
    IN  IF other = 0 THEN [plan |-> p, moved |-> FALSE]
        ELSE [plan |-> Plan([p.tiers EXCEPT
                                ![tiers[index]].priority = p.tiers[tiers[other]].priority,
                                ![tiers[other]].priority = p.tiers[tiers[index]].priority]),
              moved |-> TRUE]

\* ProApp.undo, lines 2666-2668: the last snapshot is popped and becomes the
\* plan, which save_plan writes to CONFIG_PATH.
undo(a) ==
    LET restored == dict_to_plan(a.undo_stack[Len(a.undo_stack)])
    IN  [plan |-> restored,
         app |-> [a EXCEPT !.undo_stack = SubSeq(@, 1, Len(@) - 1),
                           !.saved = save_plan(restored),
                           !.data_changed = FALSE]]

RECURSIVE apply_moves(_, _)
\* Lines 1710-1725: for each pending move the balance is raised and
\* self.app.history.record_transaction(...) is called.  TransactionHistory has
\* no such method (it has record), so the call raises AttributeError and the
\* loop is left at the first move that finds its account.  Returns
\* [plan, raised].
apply_moves(p, moves) ==
    IF moves = <<>> THEN [plan |-> p, raised |-> "none"]
    ELSE LET r == apply_move(p, moves[1][1], moves[1][2], moves[1][3])
         IN  IF r.found THEN [plan |-> r.plan, raised |-> "AttributeError"]
             ELSE apply_moves(p, Tail(moves))

\* ------------------------------------------------------------------ inputs
AccountNames == <<"acct1", "acct2", "acct3">>

\* The weights of an account: none, the default 1.0 and the largest.
Weights == {0, 1, MaxWeight}

\* The field values of an account, by how much of the model uses them.
RichFields ==
    [balance : {0, Cents(1)}, apy_pct : {0}, alloc_weight : Weights,
     account_target : {None, Some(6), Some(Cents(1))}]
PlainFields ==
    [balance : {0}, apy_pct : {0}, alloc_weight : Weights,
     account_target : {None}]
SimpleFields ==
    {[balance |-> 0, apy_pct |-> 0, alloc_weight |-> 1, account_target |-> None],
     [balance |-> Cents(1), apy_pct |-> 6, alloc_weight |-> 1, account_target |-> None]}

\* The account lists of length n over `fields`, named acct1, acct2, ...
AccountSeqs(n, fields) ==
    {[i \in 1..n |-> Account(AccountNames[i], f[i].balance, f[i].apy_pct, "",
                             f[i].alloc_weight, f[i].account_target)] :
        f \in [1..n -> fields]}

\* None or the name of one of the accounts
PreferredOf(accounts) == {None} \cup {Some(accounts[i].name) : i \in 1..Len(accounts)}

TierKinds ==
    {[name |-> "Tier 1", purpose |-> "Buffer"],
     [name |-> "Tier 4", purpose |-> "Income"],
     [name |-> "Tier 5", purpose |-> "Growth"]}

\* A tier holding up to two accounts of any kind, or three uncapped ones.
RichTiers ==
    {Tier(k.name, k.purpose, tg, 1, accs, pref) :
        k \in {x \in TierKinds : x.purpose # "Growth"}, tg \in {0, 6, Cents(2)},
        <<accs, pref>> \in
            UNION {{<<a, q>> : q \in PreferredOf(a)} :
                   a \in AccountSeqs(0, RichFields) \cup AccountSeqs(1, RichFields)
                         \cup AccountSeqs(2, RichFields) \cup AccountSeqs(3, PlainFields)}}

\* A tier holding at most one account.
SimpleTiers ==
    {Tier(k.name, k.purpose, tg, pr, accs, None) :
        k \in TierKinds, tg \in {0, 6, Cents(1), Cents(2)}, pr \in {1, 2},
        accs \in AccountSeqs(0, SimpleFields) \cup AccountSeqs(1, SimpleFields)}

\* The plans of one rich tier and the plans of two simple tiers of different names.
InitialPlans ==
    {Plan(<<t>>) : t \in RichTiers}
    \cup {Plan(<<t1, t2>>) : <<t1, t2>> \in {x \in SimpleTiers \X SimpleTiers : x[1].name # x[2].name}}

\* The amounts of a call: whole cents from -1 to MaxAmount, and a fraction of a cent.
Amounts == {Cents(c) : c \in -1..MaxAmount} \cup {6}

\* The 300 dollars of the weighted-split scenario, passed to the tiers of two
\* accounts without caps whose weights are 2 and 1: no share of theirs falls
\* half-way between two cents.
uncapped(t) == \A i \in 1..Len(t.accounts) : t.accounts[i].account_target = None
two_to_one(t) ==
    /\ Len(t.accounts) = 2
    /\ {t.accounts[1].alloc_weight, t.accounts[2].alloc_weight} = {1, 2}
ScenarioAmounts(t) == IF uncapped(t) /\ two_to_one(t) THEN {Cents(300 * 100)} ELSE {}

\* The ways the half-way values of a call round.  A share that falls half-way
\* is one of several shares of at most MaxAmount cents: with the weights of
\* this model it lies below MaxAmount - 1 cents.
HalfWays == SUBSET (0..MaxAmount - 2)

\* The same for the shares of an amount x: they lie below x.
HalfWaysBelow(x) == SUBSET {c \in 0..MaxAmount - 2 : 2 * Cents(c) + MillsPerCent < 2 * x}

\* The ways the floats of a split of x over the accounts of tier t behave.  No
\* amount, balance or cap of this model is a half-way value itself: a share
\* falls half-way only among several accounts, and only the preferred step
\* subtracts a room from the amount.
SplitRoundings(t, x) ==
    {h \cup d : h \in IF Len(t.accounts) >= 2 THEN HalfWaysBelow(x) ELSE {{}},
                d \in IF t.preferred_account # None THEN SUBSET {DustInSplit} ELSE {{}}}

\* The ways the floats of a walk of x over the tiers of plan p behave: those of
\* the splits of its tiers (none in the tier-level walk), and the dust of the
\* walk.
Roundings(p, x, detailed) ==
    LET ks == IF detailed THEN 1..Len(p.tiers) ELSE {}
    IN  {h \cup d \cup w :
            h \in IF \E k \in ks : Len(p.tiers[k].accounts) >= 2
                  THEN HalfWaysBelow(x) ELSE {{}},
            d \in IF \E k \in ks : p.tiers[k].preferred_account # None
                  THEN SUBSET {DustInSplit} ELSE {{}},
            w \in SUBSET {DustInWalk}}

RECURSIVE SumTierGaps(_)
SumTierGaps(tiers) ==
    IF tiers = <<>> THEN 0 ELSE gap(tiers[1]) + SumTierGaps(Tail(tiers))

\* The ways the floats of the leftover's split behave, when there is one: cash
\* beyond every gap and a growth tier to take it.
LeftoverRoundings(p, x) ==
    IF growth_tier(p) # None /\ x > SumTierGaps(p.tiers)
    THEN SplitRoundings(Val(growth_tier(p)), x - SumTierGaps(p.tiers))
    ELSE {{}}

\* ----------------------------------------------------------------- actions
Init ==
    /\ app = Untracked
    /\ plan \in InitialPlans
    /\ pc = "idle"
    /\ arg = [tier |-> 0, amount |-> 0, months |-> 0]
    /\ ret = <<>>
    /\ raised = "none"

\* plan.tiers[k].allocate_into_accounts(amount)
CallAllocateIntoAccounts ==
    /\ UNCHANGED app
    /\ pc = "idle"
    /\ \E k \in 1..Len(plan.tiers) :
       \E amount \in Amounts \cup ScenarioAmounts(plan.tiers[k]) :
       \E ups \in SplitRoundings(plan.tiers[k], amount) :
        LET res == allocate_into_accounts(plan.tiers[k], amount, ups)
        IN  /\ pc' = "allocate_into_accounts"
            /\ arg' = [tier |-> k, amount |-> amount, months |-> 0]
            /\ ret' = res.moves
            /\ raised' = res.raised
            /\ plan' = plan

\* Faulty variant: the tiers are sorted in place (self.tiers.sort) before the walk.
CallAllocationPlanSortingInPlace ==
    /\ UNCHANGED app
    /\ pc = "idle"
    /\ \E amount \in Amounts : \E ups \in Roundings(plan, amount, FALSE) :
        /\ pc' = "allocation_plan"
        /\ arg' = [tier |-> 0, amount |-> amount, months |-> 0]
        /\ ret' = allocation_plan(plan, amount, ups)
        /\ raised' = "none"
        /\ plan' = Plan(sorted_by_priority(plan))

\* plan.allocation_plan(amount)
CallAllocationPlan ==
    /\ UNCHANGED app
    /\ pc = "idle"
    /\ \E amount \in Amounts : \E ups \in Roundings(plan, amount, FALSE) :
        /\ pc' = "allocation_plan"
        /\ arg' = [tier |-> 0, amount |-> amount, months |-> 0]
        /\ ret' = allocation_plan(plan, amount, ups)
        /\ raised' = "none"
        /\ plan' = plan

\* plan.allocation_plan_detailed(amount)
CallAllocationPlanDetailed ==
    /\ UNCHANGED app
    /\ pc = "idle"
    /\ \E amount \in Amounts : \E ups \in Roundings(plan, amount, TRUE) :
       \E ups_left \in LeftoverRoundings(plan, amount) :
        LET res == allocation_plan_detailed(plan, amount, ups, ups_left)
        IN  /\ pc' = "allocation_plan_detailed"
            /\ arg' = [tier |-> 0, amount |-> amount, months |-> 0]
            /\ ret' = res.moves
            /\ raised' = res.raised
            /\ plan' = plan

\* The roundings of a walk: none to choose for a plan in whole cents, else the
\* iterations (i + j) whose half-way amount rounds up and the differences left
\* above half a cent.
WalkRoundings(p) ==
    IF \A k \in 1..Len(p.tiers) :
          /\ p.tiers[k].target % MillsPerCent = 0
          /\ total(p.tiers[k]) % MillsPerCent = 0
    THEN {{}}
    ELSE {u \cup m : u \in SUBSET (2..Len(p.tiers)),
                     m \in SUBSET {AboveHalfOver, AboveHalfUnder}}

\* plan.rebalancing_moves()
CallRebalancingMoves ==
    /\ UNCHANGED app
    /\ pc = "idle"
    /\ \E ups \in WalkRoundings(plan) :
        /\ pc' = "rebalancing_moves"
        /\ arg' = [tier |-> 0, amount |-> 0, months |-> 0]
        /\ ret' = rebalancing_moves(plan, ups)
        /\ raised' = "none"
        /\ plan' = plan

\* plan.forecast(months)
CallForecast ==
    /\ UNCHANGED app
    /\ pc = "idle"
    /\ \E months \in Months :
        /\ pc' = "forecast"
        /\ arg' = [tier |-> 0, amount |-> 0, months |-> months]
        /\ ret' = forecast(plan, months)
        /\ raised' = "none"
        /\ plan' = plan

\* account.expected_growth(months) on account i of tier k.
CallExpectedGrowth ==
    /\ UNCHANGED app
    /\ pc = "idle"
    /\ \E k \in 1..Len(plan.tiers) :
       \E i \in 1..Len(plan.tiers[k].accounts) :
       \E months \in Months :
        /\ pc' = "expected_growth"
        /\ arg' = [tier |-> k, account |-> i, months |-> months]
        /\ ret' = expected_growth(plan.tiers[k].accounts[i], months)
        /\ raised' = "none"
        /\ plan' = plan

\* The caller has read the result; the engine is idle again.
Return ==
    /\ UNCHANGED app
    /\ pc # "idle"
    /\ pc' = "idle"
    /\ arg' = [tier |-> 0, amount |-> 0, months |-> 0]
    /\ ret' = <<>>
    /\ raised' = "none"
    /\ plan' = plan

Next ==
    \/ CallAllocateIntoAccounts
    \/ CallAllocationPlan
    \/ CallAllocationPlanDetailed
    \/ CallRebalancingMoves
    \/ CallForecast
    \/ Return

Spec == Init /\ [][Next]_vars

\* ---- editing a plan
\* The names a user gives to tiers and accounts.
EditTierNames == {"Tier 1", "Tier 4"}
EditAccountNames == {"acct1", "acct2"}

\* The target a user gives to a tier.
EditTarget == Cents(2)

\* The plan of a new installation, cut down to one tier of one account.
InitEdit ==
    /\ app = Untracked
    /\ plan = Plan(<< Tier("Tier 1", "Buffer", EditTarget, 1,
                            <<Account("acct1", 0, 0, "", 1, None)>>, Some("acct1")) >>)
    /\ pc = "idle"
    /\ arg = [tier |-> 0, amount |-> 0, months |-> 0]
    /\ ret = <<>>
    /\ raised = "none"

\* What an editing handler leaves besides the plan.
Edited ==
    /\ pc' = "idle"
    /\ UNCHANGED <<arg, ret, raised>>

\* cmd_add_tier: a tier of that name must not exist (SystemExit otherwise).
CmdAddTier ==
    /\ UNCHANGED app
    /\ pc = "idle"
    /\ Len(plan.tiers) < MaxTiers
    /\ \E name \in EditTierNames :
        /\ TiersNamed(plan, name) = {}
        /\ plan' = append_tier(plan, name, "Buffer", EditTarget, 1)
    /\ Edited

\* TierManagementDialog.add_tier.create_tier: the same check, with a warning.
CreateTier ==
    /\ app' = mark_data_changed(save_snapshot(app, plan))
    /\ pc = "idle"
    /\ Len(plan.tiers) < MaxTiers
    /\ \E name \in EditTierNames :
        /\ TiersNamed(plan, name) = {}
        /\ plan' = append_tier(plan, name, "Buffer", EditTarget, Len(plan.tiers) + 1)
    /\ Edited

\* cmd_remove_tier: any name.
CmdRemoveTier ==
    /\ UNCHANGED app
    /\ pc = "idle"
    /\ \E name \in EditTierNames : plan' = without_tier(plan, name)
    /\ Edited

\* TierManagementDialog.delete_tier: the tier selected in the list.
DeleteTier ==
    /\ app' = mark_data_changed(save_snapshot(app, plan))
    /\ pc = "idle"
    /\ \E k \in 1..Len(plan.tiers) : plan' = without_tier(plan, plan.tiers[k].name)
    /\ Edited

\* TierManagementDialog.save_tier_changes: the tier selected in the list, a name
\* typed by the user, and a preferred account picked among "(None)", the names
\* of the tier's accounts and the value the form was filled with.
SaveTierChanges ==
    /\ app' = mark_data_changed(save_snapshot(app, plan))
    /\ pc = "idle"
    /\ \E k \in 1..Len(plan.tiers) :
       \E name \in EditTierNames :
       \E preferred \in PreferredOf(plan.tiers[k].accounts) \cup {plan.tiers[k].preferred_account} :
            plan' = save_tier_changes(plan, k, name, plan.tiers[k].purpose,
                                      plan.tiers[k].target, plan.tiers[k].priority, preferred)
    /\ Edited

\* tier.add_or_update_account(name, balance) (cmd_set_balance)
AddOrUpdateAccount ==
    /\ UNCHANGED app
    /\ pc = "idle"
    /\ \E k \in 1..Len(plan.tiers) :
       \E name \in EditAccountNames :
        /\ \/ Len(plan.tiers[k].accounts) < MaxAccounts
           \/ \E i \in 1..Len(plan.tiers[k].accounts) : plan.tiers[k].accounts[i].name = name
        /\ plan' = Plan([plan.tiers EXCEPT ![k] =
                          add_or_update_account(@, name, 0, None, "", None, None)])
    /\ Edited

\* tier.set_preferred(name) (cmd_set_preferred)
CallSetPreferred ==
    /\ UNCHANGED app
    /\ pc = "idle"
    /\ \E k \in 1..Len(plan.tiers) :
       \E name \in {None} \cup {Some(n) : n \in EditAccountNames} :
        LET res == set_preferred(plan.tiers[k], name)
        IN  /\ pc' = "set_preferred"
            /\ arg' = [tier |-> k, name |-> name]
            /\ ret' = <<>>
            /\ raised' = res.raised
            /\ plan' = Plan([plan.tiers EXCEPT ![k] = res.tier])

\* plan.by_name(name)
CallByName ==
    /\ UNCHANGED app
    /\ pc = "idle"
    /\ \E name \in EditTierNames :
        LET res == by_name(plan, name)
        IN  /\ pc' = "by_name"
            /\ arg' = [tier |-> 0, name |-> name]
            /\ ret' = IF res.raised = "none" THEN <<res.tier>> ELSE <<>>
            /\ raised' = res.raised
            /\ plan' = plan

\* ProApp.delete_account: the row selected in the accounts tree.
DeleteAccount ==
    /\ app' = mark_data_changed(save_snapshot(app, plan))
    /\ pc = "idle"
    /\ \E k \in 1..Len(plan.tiers) :
       \E i \in 1..Len(plan.tiers[k].accounts) :
        LET name == plan.tiers[k].accounts[i].name
        IN  plan' = delete_account(plan, tier_of_row(plan, plan.tiers[k].name, name), name)
    /\ Edited

\* AccountDialog.delete_account: the account the dialog was opened on by
\* ProApp.edit_account.
DialogDeleteAccount ==
    /\ app' = mark_data_changed(save_snapshot(app, plan))
    /\ pc = "idle"
    /\ \E k \in 1..Len(plan.tiers) :
       \E i \in 1..Len(plan.tiers[k].accounts) :
        LET name == plan.tiers[k].accounts[i].name
        IN  plan' = delete_account(plan, tier_of_row(plan, plan.tiers[k].name, name), name)
    /\ Edited

\* AccountDialog.save_account in edit mode: the account the dialog was opened
\* on (the first of that name in the tier found for the row), a name typed by
\* the user and a tier picked among the names of the plan's tiers.
SaveAccount ==
    /\ app' = mark_data_changed(save_snapshot(app, plan))
    /\ pc = "idle"
    /\ \E row \in 1..Len(plan.tiers) :
       \E r \in 1..Len(plan.tiers[row].accounts) :
       \E name \in EditAccountNames :
       \E to \in 1..Len(plan.tiers) :
        LET old == plan.tiers[row].accounts[r].name
            k   == tier_of_row(plan, plan.tiers[row].name, old)
            i   == CHOOSE x \in 1..Len(plan.tiers[k].accounts) :
                       /\ plan.tiers[k].accounts[x].name = old
                       /\ \A y \in 1..x - 1 : plan.tiers[k].accounts[y].name # old
            tier_name == plan.tiers[to].name
        IN  /\ \/ plan.tiers[k].name = tier_name
               \/ Len(plan.tiers[FirstNamed(plan, tier_name)].accounts) < MaxAccounts
            /\ plan' = save_account_edit(plan, k, i, name, tier_name)
    /\ Edited

\* One row of ProApp.import_csv_accounts.
ImportCsvAccounts ==
    /\ app' = mark_data_changed(save_snapshot(app, plan))
    /\ pc = "idle"
    /\ \E tier_name \in EditTierNames :
       \E name \in EditAccountNames :
        /\ \/ TiersNamed(plan, tier_name) = {} /\ Len(plan.tiers) < MaxTiers
           \/ /\ TiersNamed(plan, tier_name) # {}
              /\ LET t == plan.tiers[FirstNamed(plan, tier_name)]
                 IN  \/ Len(t.accounts) < MaxAccounts
                     \/ \E i \in 1..Len(t.accounts) : t.accounts[i].name = name
        /\ plan' = import_csv_row(plan, tier_name, name, 0)
    /\ Edited

NextEdit ==
    \/ CmdAddTier
    \/ CreateTier
    \/ CmdRemoveTier
    \/ DeleteTier
    \/ SaveTierChanges
    \/ AddOrUpdateAccount
    \/ CallSetPreferred
    \/ CallByName
    \/ DeleteAccount
    \/ DialogDeleteAccount
    \/ SaveAccount
    \/ ImportCsvAccounts
    \/ Return

\* The plan under the editing handlers of the command line and of the
\* application.
SpecEdit == InitEdit /\ [][NextEdit]_vars

NextAccounts ==
    \/ AddOrUpdateAccount
    \/ CallSetPreferred
    \/ DeleteAccount
    \/ DialogDeleteAccount
    \/ CallAllocateIntoAccounts
    \/ CallAllocationPlan
    \/ CallAllocationPlanDetailed
    \/ Return

\* The accounts of a loaded plan added, preferred and removed, and the
\* allocation calls on the plans this leads to.
SpecAccounts == InitEdit /\ [][NextAccounts]_vars

\* ---- saving and loading a plan
\* The field values of a saved account: a cap that is absent, 0 or positive.
PersistFields ==
    [balance : {0, Cents(1)}, apy_pct : {0, 6}, notes : {"", "note"},
     alloc_weight : {0, 1}, account_target : {None, Some(0), Some(Cents(1))}]

\* No account, one account of any kind, or such an account before a plain one.
PersistAccounts ==
    {<<>>}
    \cup {<<Account("acct1", f.balance, f.apy_pct, f.notes, f.alloc_weight,
                    f.account_target)>> : f \in PersistFields}
    \cup {<<Account("acct2", f.balance, f.apy_pct, f.notes, f.alloc_weight,
                    f.account_target),
            Account("acct1", 0, 0, "", 1, None)>> : f \in PersistFields}

PersistTiers ==
    {Tier(name, purpose, target, priority, accounts, preferred) :
        name \in {"Tier 1", "Tier 4"}, purpose \in {"", "Growth"},
        target \in {0, Cents(2)}, priority \in {1, 2}, accounts \in PersistAccounts,
        preferred \in {None, Some(""), Some("acct1")}}

\* The plans of one tier, and plans of two tiers in either priority order.
PersistPlans ==
    {Plan(<<t>>) : t \in PersistTiers}
    \cup {Plan(<<Tier("Tier 1", "", 0, pr[1], <<>>, None), Tier("Tier 4", "", 0, pr[2], <<>>, None)>>) :
             pr \in {1, 2} \X {1, 2}}
    \cup {Plan(<<>>)}

InitPersist ==
    /\ app = Untracked
    /\ plan \in PersistPlans
    /\ pc = "idle"
    /\ arg = [tier |-> 0, amount |-> 0, months |-> 0]
    /\ ret = <<>>
    /\ raised = "none"

\* save_plan(plan) and then load_plan(): the cycle of every command of the
\* command line.  ret holds the plan that was loaded.
SaveThenLoad ==
    /\ UNCHANGED app
    /\ pc = "idle"
    /\ pc' = "load_plan"
    /\ ret' = <<load_plan(save_plan(plan))>>
    /\ UNCHANGED <<plan, arg, raised>>

\* plan_to_dict(plan) and then dict_to_plan(): ProApp.save_snapshot and
\* ProApp.undo.  ret holds the plan that was rebuilt.
SnapshotThenRestore ==
    /\ UNCHANGED app
    /\ pc = "idle"
    /\ pc' = "dict_to_plan"
    /\ ret' = <<dict_to_plan(plan_to_dict(plan))>>
    /\ UNCHANGED <<plan, arg, raised>>

NextPersist ==
    \/ SaveThenLoad
    \/ SnapshotThenRestore
    \/ Return

SpecPersist == InitPersist /\ [][NextPersist]_vars

\* ---- creating, editing, deleting and importing tiers
NextTiers ==
    \/ CmdAddTier
    \/ CreateTier
    \/ SaveTierChanges
    \/ CmdRemoveTier
    \/ DeleteTier
    \/ ImportCsvAccounts

SpecTiers == InitEdit /\ [][NextTiers]_vars

\* ---- forecasting plans with overdrawn accounts and negative yields
ForecastAccounts(name) ==
    {Account(name, balance, apy_pct, "", 1, None) :
        balance \in {-Cents(1), 0, Cents(1)}, apy_pct \in {-6, 0, 6}}

ForecastTiers ==
    {Tier("Tier 1", "Buffer", 0, 1, accounts, None) :
        accounts \in {<<>>} \cup {<<a>> : a \in ForecastAccounts("acct1")}
                    \cup {<<a, b>> : a \in ForecastAccounts("acct1"),
                                     b \in ForecastAccounts("acct2")}}

ForecastPlans ==
    {Plan(<<t>>) : t \in ForecastTiers}
    \cup {Plan(<<t, Tier("Tier 4", "Growth", 0, 2, <<a>>, None)>>) :
             t \in ForecastTiers,
             a \in {Account("acct1", Cents(1), 6, "", 1, None),
                    Account("acct1", -Cents(1), 6, "", 1, None)}}

InitForecast ==
    /\ app = Untracked
    /\ plan \in ForecastPlans
    /\ pc = "idle"
    /\ arg = [tier |-> 0, amount |-> 0, months |-> 0]
    /\ ret = <<>>
    /\ raised = "none"

NextForecast ==
    \/ CallExpectedGrowth
    \/ CallForecast
    \/ Return

SpecForecast == InitForecast /\ [][NextForecast]_vars

NextLookup ==
    \/ CallSetPreferred
    \/ CallByName
    \/ Return

\* The lookups by name, on the plans of the engine's calls.
SpecLookup == Init /\ [][NextLookup]_vars

\* The plans of three tiers of one account each, for the rebalancing walk:
\* a tier is overfunded, underfunded (by a whole cent, by a fraction of a cent,
\* by half a cent or by a cent and a half) or on target.
RebalanceTiers(k) ==
    {Tier(k.name, k.purpose, tg, pr,
          <<Account("acct1", bal, 0, "", 1, None)>>, None) :
        tg \in {0, 5, 6, Cents(1) + 5, Cents(2)}, pr \in {1, 2},
        bal \in {0, Cents(1), Cents(3)}}

RebalancePlans ==
    {Plan(<<t1, t2, t3>>) :
        t1 \in RebalanceTiers([name |-> "Tier 1", purpose |-> "Buffer"]),
        t2 \in RebalanceTiers([name |-> "Tier 4", purpose |-> "Income"]),
        t3 \in RebalanceTiers([name |-> "Tier 5", purpose |-> "Growth"])}

InitRebalance ==
    /\ app = Untracked
    /\ plan \in RebalancePlans
    /\ pc = "idle"
    /\ arg = [tier |-> 0, amount |-> 0, months |-> 0]
    /\ ret = <<>>
    /\ raised = "none"

NextRebalance ==
    \/ CallRebalancingMoves
    \/ Return

\* The calls of rebalancing_moves on plans of three tiers.
SpecRebalance == InitRebalance /\ [][NextRebalance]_vars

\* ---- the loops of the engine, followed pass by pass
\* The plans of one tier of several accounts, for the weighted split, and the
\* plans of two tiers of one account, for the rebalancing walk.
LoopPlans ==
    {Plan(<<t>>) : t \in RichTiers}
    \cup {Plan(<<t1, t2>>) :
             t1 \in RebalanceTiers([name |-> "Tier 1", purpose |-> "Buffer"]),
             t2 \in RebalanceTiers([name |-> "Tier 4", purpose |-> "Income"])}

InitLoops ==
    /\ app = Untracked
    /\ plan \in LoopPlans
    /\ pc = "idle"
    /\ arg = [tier |-> 0, amount |-> 0, months |-> 0]
    /\ ret = <<>>
    /\ raised = "none"

\* Lines 106-119 of allocate_into_accounts, for an amount that may be inf: the
\* early return, or the preferred step and the entry of the loop.  ret holds
\* the moves collected so far.
EnterAllocateIntoAccounts ==
    /\ UNCHANGED app
    /\ pc = "idle"
    /\ \E k \in 1..Len(plan.tiers) :
       \E amount \in Amounts \cup {Infinity} :
       \E ups \in SplitRoundings(plan.tiers[k], Min(amount, Cents(MaxAmount))) :
        LET t == plan.tiers[k]
            remaining == Max(0, amount)
            p == IF amount = Infinity THEN infinite_preferred_step(t, ups)
                 ELSE preferred_step(t, remaining, ups)
        IN  /\ plan' = plan
            /\ IF remaining <= 0 \/ t.accounts = <<>>
               THEN /\ pc' = "allocate_into_accounts"
                    /\ arg' = [tier |-> k, amount |-> amount, months |-> 0]
                    /\ ret' = <<>>
                    /\ raised' = "none"
               ELSE IF p.raised # "none"
               THEN /\ pc' = "allocate_into_accounts"
                    /\ arg' = [tier |-> k, amount |-> amount, months |-> 0]
                    /\ ret' = <<>>
                    /\ raised' = p.raised
               ELSE /\ pc' = "weighted_split"
                    /\ arg' = [tier |-> k, amount |-> amount, remaining |-> p.remaining,
                               dust |-> p.dust, ups |-> ups]
                    /\ ret' = p.moves
                    /\ raised' = "none"

\* Lines 122-143: one pass of the loop (remaining > 0 holds, or dust is left).
WeightedSplitPass ==
    /\ UNCHANGED app
    /\ pc = "weighted_split"
    /\ arg.dust \/ arg.remaining > 0
    /\ Len(ret) < MaxMoves
    /\ LET t == plan.tiers[arg.tier]
           st == IF arg.dust
                 THEN [remaining |-> 0, moves |-> weighted_split_dust(t, ret), done |-> TRUE]
                 ELSE IF arg.remaining = Infinity
                 THEN infinite_split_pass(t, ret, arg.ups)
                 ELSE weighted_split_pass(t, arg.remaining, ret, arg.ups)
       IN  /\ ret' = st.moves
           /\ IF st.done
              THEN /\ pc' = "allocate_into_accounts"
                   /\ arg' = [tier |-> arg.tier, amount |-> arg.amount, months |-> 0]
              ELSE /\ pc' = "weighted_split"
                   /\ arg' = [arg EXCEPT !.remaining = st.remaining, !.dust = FALSE]
    /\ UNCHANGED <<plan, raised>>

\* Line 122 fails (remaining is 0, below 0 or nan) and line 144 returns.
LeaveWeightedSplit ==
    /\ UNCHANGED app
    /\ pc = "weighted_split"
    /\ ~arg.dust /\ ~(arg.remaining > 0)
    /\ pc' = "allocate_into_accounts"
    /\ arg' = [tier |-> arg.tier, amount |-> arg.amount, months |-> 0]
    /\ UNCHANGED <<plan, ret, raised>>

\* Lines 219-224 of rebalancing_moves: the two lists, and the early return.
EnterRebalancingMoves ==
    /\ UNCHANGED app
    /\ pc = "idle"
    /\ \E ups \in WalkRoundings(plan) :
        IF under_list(plan) = <<>> \/ over_list(plan) = <<>>
        THEN /\ pc' = "rebalancing_moves"
             /\ arg' = [tier |-> 0, amount |-> 0, months |-> 0]
        ELSE /\ pc' = "rebalance_walk"
             /\ arg' = [st |-> [over |-> over_list(plan), under |-> under_list(plan),
                                i |-> 1, j |-> 1,
                                above |-> [over |-> FALSE, under |-> FALSE],
                                moves |-> <<>>],
                        ups |-> ups]
    /\ ret' = <<>>
    /\ UNCHANGED <<plan, raised>>

\* Lines 225-238: one iteration of while i < len(over) and j < len(under).
RebalanceIteration ==
    /\ UNCHANGED app
    /\ pc = "rebalance_walk"
    /\ arg.st.i <= Len(arg.st.over) /\ arg.st.j <= Len(arg.st.under)
    /\ arg' = [arg EXCEPT !.st = rebalance_step(arg.st, arg.ups)]
    /\ ret' = arg'.st.moves
    /\ UNCHANGED <<plan, pc, raised>>

\* Line 225 fails and line 239 returns.
LeaveRebalanceWalk ==
    /\ UNCHANGED app
    /\ pc = "rebalance_walk"
    /\ ~(arg.st.i <= Len(arg.st.over) /\ arg.st.j <= Len(arg.st.under))
    /\ pc' = "rebalancing_moves"
    /\ arg' = [tier |-> 0, amount |-> 0, months |-> 0]
    /\ UNCHANGED <<plan, ret, raised>>

\* The caller has read the result of a call that has left its loop.
ReturnFromLoops ==
    /\ pc \in {"allocate_into_accounts", "rebalancing_moves"}
    /\ Return

NextLoops ==
    \/ EnterAllocateIntoAccounts
    \/ WeightedSplitPass
    \/ LeaveWeightedSplit
    \/ EnterRebalancingMoves
    \/ RebalanceIteration
    \/ LeaveRebalanceWalk
    \/ ReturnFromLoops

SpecLoops == InitLoops /\ [][NextLoops]_vars

\* ---- the allocation dialog
\* The plans the dialog is opened on: empty accounts without caps, in one tier
\* of up to two accounts or in two tiers of one account, each tier aiming at
\* two cents.
DialogPlans ==
    {Plan(<<Tier("Tier 1", "Buffer", Cents(2), 1, accs, pref)>>) :
        <<accs, pref>> \in
            UNION {{<<a, q>> : q \in PreferredOf(a)} :
                   a \in AccountSeqs(1, PlainFields) \cup AccountSeqs(2, PlainFields)}}
    \cup {Plan(<<Tier("Tier 1", "Buffer", Cents(2), 1, a1, None),
                 Tier(k.name, k.purpose, Cents(2), 2, a2, None)>>) :
            k \in {x \in TierKinds : x.name # "Tier 1"},
            a1 \in AccountSeqs(1, PlainFields), a2 \in AccountSeqs(0, PlainFields) \cup AccountSeqs(1, PlainFields)}

\* The application as load_or_init_plan leaves it: the plan is the one on file.
InitApp ==
    /\ plan \in DialogPlans
    /\ pc = "idle"
    /\ arg = [tier |-> 0, amount |-> 0, months |-> 0]
    /\ ret = <<>>
    /\ raised = "none"
    /\ app = App(<<>>, FALSE, save_plan(plan), <<>>, <<>>)

\* The moves preview_allocation leaves to apply: those of the plan for a
\* positive amount, none after an error message.
previewed(amount, res) ==
    IF amount > 0 /\ res.raised = "none" THEN res.moves ELSE <<>>

\* AllocationDialog.preview_allocation of one of the amounts.  pending_moves
\* holds what the Apply button can apply: it is empty while the button is
\* disabled (nothing to allocate, or an error shown).
PreviewOf(amounts) ==
    /\ pc = "idle"
    /\ app.tracked
    /\ \E amount \in amounts :
       \E ups \in Roundings(plan, amount, TRUE) :
       \E ups_left \in LeftoverRoundings(plan, amount) :
        LET res == allocation_plan_detailed(plan, amount, ups, ups_left)
        IN  app' = [app EXCEPT !.pending_moves = previewed(amount, res)]
    /\ UNCHANGED <<plan, pc, arg, ret, raised>>

PreviewAllocation == PreviewOf({x \in Amounts : x >= 0})

\* AllocationDialog.apply_allocation, confirmed by the user.  arg holds the
\* plan and the pending moves the call started from; raised is the exception
\* that handle_error was given.  A call that ends without one closes the dialog.
\* The model stops adding to tiers that hold MaxAmount - 1 cents.
ApplyAllocation ==
    /\ pc = "idle"
    /\ app.tracked
    /\ app.pending_moves # <<>>
    /\ \A k \in 1..Len(plan.tiers) : SumBalances(plan.tiers[k].accounts) < Cents(MaxAmount - 1)
    /\ LET r == apply_moves(plan, app.pending_moves)
       IN  /\ plan' = r.plan
           /\ raised' = r.raised
           /\ app' = IF r.raised = "none"
                     THEN [mark_data_changed(app) EXCEPT !.pending_moves = <<>>]
                     ELSE app
    /\ pc' = "apply_allocation"
    /\ arg' = [before |-> plan, pending |-> app.pending_moves]
    /\ ret' = <<>>

\* The Cancel button of the dialog (self.dialog.destroy): the dialog and its
\* pending moves are gone.
CancelAllocation ==
    /\ pc = "idle"
    /\ app.tracked
    /\ app.pending_moves # <<>>
    /\ app' = [app EXCEPT !.pending_moves = <<>>]
    /\ UNCHANGED <<plan, pc, arg, ret, raised>>

NextApply ==
    \/ PreviewAllocation
    \/ ApplyAllocation
    \/ CancelAllocation
    \/ Return

SpecApply == InitApp /\ [][NextApply]_vars

\* ---- the application: editing, allocating, undoing, saving and loading
\* The snapshots of n plans like p.
Snapshots(p, n) == [i \in 1..n |-> plan_to_dict(p)]

\* The application on the plan of InitEdit, read from CONFIG_PATH, with no
\* snapshot yet or after UndoLimit edits that left the plan as it is.
InitTracked ==
    /\ plan = Plan(<< Tier("Tier 1", "Buffer", EditTarget, 1,
                            <<Account("acct1", 0, 0, "", 1, None)>>, Some("acct1")) >>)
    /\ pc = "idle"
    /\ arg = [tier |-> 0, amount |-> 0, months |-> 0]
    /\ ret = <<>>
    /\ raised = "none"
    /\ \E n \in {0, UndoLimit} :
          app = App(Snapshots(plan, n), FALSE, save_plan(plan), <<>>, <<>>)

\* The snapshots on the stack that differ from the oldest one are fewer than
\* MaxSnapshots: the model follows the handlers that take a snapshot no further.
WithinHistory ==
    Cardinality({i \in 1..Len(app.undo_stack) : app.undo_stack[i] # app.undo_stack[1]})
        < MaxSnapshots

\* TierManagementDialog.move_tier on a selected tier, up or down.
MoveTier ==
    /\ pc = "idle"
    /\ \E index \in 1..Len(plan.tiers) : \E direction \in {-1, 1} :
        LET res == move_tier(plan, index, direction)
        IN  /\ res.moved
            /\ plan' = res.plan
    /\ app' = mark_data_changed(app)
    /\ Edited

\* ProApp.undo with a snapshot on the stack.
Undo ==
    /\ pc = "idle"
    /\ app.tracked
    /\ app.undo_stack # <<>>
    /\ plan' = undo(app).plan
    /\ app' = undo(app).app
    /\ pc' = "undo"
    /\ arg' = [tier |-> 0, amount |-> 0, months |-> 0]
    /\ ret' = <<>>
    /\ raised' = "none"

\* ProApp.save_plan, from the menu or from auto_save_check and on_closing when
\* data_changed is set.
SavePlan ==
    /\ pc = "idle"
    /\ app.tracked
    /\ app' = [app EXCEPT !.saved = save_plan(plan), !.data_changed = FALSE]
    /\ pc' = "save_plan"
    /\ UNCHANGED <<plan, arg, ret, raised>>

\* The plans of the files a user loads.
OtherPlans ==
    {Plan(<< Tier("Tier 4", "Income", EditTarget, 1,
                  <<Account("acct2", 0, 0, "", 1, None)>>, None) >>)}

\* ProApp.load_plan of another file; `first` is the answer Yes to saving the
\* unsaved changes first.
LoadPlan ==
    /\ pc = "idle"
    /\ app.tracked
    /\ \E file \in OtherPlans : \E first \in BOOLEAN :
        /\ plan' = load_plan(save_plan(file))
        /\ app' = [app EXCEPT !.saved = IF app.data_changed /\ first
                                        THEN save_plan(plan) ELSE @,
                              !.data_changed = FALSE]
    /\ pc' = "load_plan"
    /\ UNCHANGED <<arg, ret, raised>>

\* The allocation dialog is modal (grab_set): the handlers of the main window
\* and of the other dialogs run while it is closed.
AtMainWindow == app.pending_moves = <<>>

\* No account of the plan holds money.
Unfunded == \A k \in 1..Len(plan.tiers) : SumBalances(plan.tiers[k].accounts) = 0

\* The dialog opened on a plan without money, for an amount of two cents.
PreviewTwoCents == Unfunded /\ PreviewOf({Cents(2)})

\* The handlers that change the plan, and undo.
NextUndo ==
    \/ AtMainWindow /\ WithinHistory /\ CreateTier
    \/ AtMainWindow /\ WithinHistory /\ SaveTierChanges
    \/ AtMainWindow /\ WithinHistory /\ DeleteTier
    \/ AtMainWindow /\ MoveTier
    \/ AtMainWindow /\ WithinHistory /\ SaveAccount
    \/ AtMainWindow /\ WithinHistory /\ DialogDeleteAccount
    \/ AtMainWindow /\ WithinHistory /\ ImportCsvAccounts
    \/ PreviewTwoCents
    \/ ApplyAllocation
    \/ CancelAllocation
    \/ AtMainWindow /\ Undo
    \/ Return

SpecUndo == InitTracked /\ [][NextUndo]_vars

\* The handlers that change the plan or write it to CONFIG_PATH.
NextSaved ==
    \/ AtMainWindow /\ WithinHistory /\ CreateTier
    \/ AtMainWindow /\ WithinHistory /\ DeleteAccount
    \/ AtMainWindow /\ MoveTier
    \/ PreviewTwoCents
    \/ ApplyAllocation
    \/ CancelAllocation
    \/ AtMainWindow /\ Undo
    \/ SavePlan
    \/ AtMainWindow /\ LoadPlan
    \/ Return

SpecSaved == InitTracked /\ [][NextSaved]_vars

\* The calls of allocation_plan_detailed alone, for what relates two of them.
NextDetailed ==
    \/ CallAllocationPlanDetailed
    \/ Return

SpecDetailed == Init /\ [][NextDetailed]_vars

\* The calls of allocation_plan_detailed on plans whose first tier may split
\* nothing: a tier of up to two accounts of weight 1, empty or full or given
\* less than a cent, before a growth tier of at most one account.
FallbackFields == {f \in RichFields : f.alloc_weight = 1}

FallbackPlans ==
    {Plan(<<Tier("Tier 1", "Buffer", tg, 1, accs, pref),
            Tier(k.name, k.purpose, Cents(2), 2, low, None)>>) :
        tg \in {6, Cents(1), Cents(2)},
        <<accs, pref>> \in
            UNION {{<<a, q>> : q \in PreferredOf(a)} :
                   a \in AccountSeqs(0, FallbackFields) \cup AccountSeqs(1, FallbackFields)
                         \cup AccountSeqs(2, FallbackFields)},
        k \in {x \in TierKinds : x.name # "Tier 1"},
        low \in AccountSeqs(0, SimpleFields) \cup AccountSeqs(1, SimpleFields)}

InitFallback ==
    /\ app = Untracked
    /\ plan \in FallbackPlans
    /\ pc = "idle"
    /\ arg = [tier |-> 0, amount |-> 0, months |-> 0]
    /\ ret = <<>>
    /\ raised = "none"

SpecFallback == InitFallback /\ [][NextDetailed]_vars

\* ---- add_or_update_account with every argument
UpsertPlans ==
    {Plan(<<Tier("Tier 1", "Buffer", Cents(2), 1, accounts, None)>>) :
        accounts \in PersistAccounts}

InitUpsert ==
    /\ app = Untracked
    /\ plan \in UpsertPlans
    /\ pc = "idle"
    /\ arg = [tier |-> 0, amount |-> 0, months |-> 0]
    /\ ret = <<>>
    /\ raised = "none"

\* tier.add_or_update_account(name, balance, apy_pct, notes, alloc_weight,
\* account_target); arg keeps the arguments and the tier as it was.
CallAddOrUpdateAccount ==
    /\ UNCHANGED app
    /\ pc = "idle"
    /\ \E k \in 1..Len(plan.tiers) :
       \E name \in EditAccountNames, balance \in {0, Cents(1)},
          apy_pct \in {None, Some(0), Some(6)}, notes \in {"", "note"},
          alloc_weight \in {None, Some(0), Some(2)},
          account_target \in {None, Some(0), Some(Cents(1))} :
        /\ \/ Len(plan.tiers[k].accounts) < MaxAccounts
           \/ \E i \in 1..Len(plan.tiers[k].accounts) : plan.tiers[k].accounts[i].name = name
        /\ plan' = Plan([plan.tiers EXCEPT ![k] =
                          add_or_update_account(@, name, balance, apy_pct, notes,
                                                alloc_weight, account_target)])
        /\ arg' = [tier |-> k, before |-> plan.tiers[k], name |-> name, balance |-> balance,
                   apy_pct |-> apy_pct, notes |-> notes, alloc_weight |-> alloc_weight,
                   account_target |-> account_target]
    /\ pc' = "add_or_update_account"
    /\ ret' = <<>>
    /\ raised' = "none"

NextUpsert ==
    \/ CallAddOrUpdateAccount
    \/ Return

SpecUpsert == InitUpsert /\ [][NextUpsert]_vars

\* ------------------------------------------------- recurring transactions
\* A date of the proleptic Gregorian calendar, as datetime.date keeps it.
Date(year, month, day) == [year |-> year, month |-> month, day |-> day]

IsLeap(year) == (year % 4 = 0 /\ year % 100 # 0) \/ year % 400 = 0

DaysInMonth(year, month) ==
    IF month = 2 THEN (IF IsLeap(year) THEN 29 ELSE 28)
    ELSE IF month \in {4, 6, 9, 11} THEN 30 ELSE 31

\* a.isoformat() > b.isoformat(): the strings compare as the dates do.
IsoAfter(a, b) ==
    \/ a.year > b.year
    \/ a.year = b.year /\ a.month > b.month
    \/ a.year = b.year /\ a.month = b.month /\ a.day > b.day

NextDay(d) ==
    IF d.day < DaysInMonth(d.year, d.month) THEN Date(d.year, d.month, d.day + 1)
    ELSE IF d.month < 12 THEN Date(d.year, d.month + 1, 1)
    ELSE Date(d.year + 1, 1, 1)

\* d + timedelta(days=n)
RECURSIVE AddDays(_, _)
AddDays(d, n) == IF n = 0 THEN d ELSE AddDays(NextDay(d), n - 1)

\* d.replace(year=..., month=...): None stands for the ValueError of a day
\* the month does not have.
replace(d, year, month) ==
    IF d.day <= DaysInMonth(year, month) THEN Some(Date(year, month, d.day)) ELSE None

\* RecurringManager._calculate_next_date: the next date, or None when
\* date.replace raises ValueError.
calculate_next_date(current, frequency) ==
    IF frequency = "daily" THEN Some(AddDays(current, 1))
    ELSE IF frequency = "weekly" THEN Some(AddDays(current, 7))
    ELSE IF frequency = "biweekly" THEN Some(AddDays(current, 14))
    ELSE IF frequency = "monthly" THEN
        (IF current.month = 12 THEN replace(current, current.year + 1, 1)
         ELSE replace(current, current.year, current.month + 1))
    ELSE IF frequency = "quarterly" THEN
        LET new_month == current.month + 3
        IN  replace(current, current.year + ((new_month - 1) \div 12),
                    ((new_month - 1) % 12) + 1)
    ELSE IF frequency = "annually" THEN replace(current, current.year + 1, current.month)
    ELSE Some(AddDays(current, 30))

RecurringTransaction(name, tier_name, account_name, amount, frequency, next_date, enabled) ==
    [name |-> name, tier_name |-> tier_name, account_name |-> account_name,
     amount |-> amount, frequency |-> frequency, next_date |-> next_date,
     enabled |-> enabled]

\* The RecurringManager with the TransactionHistory it writes to and the
\* day date.today() returns.
Recurring(transactions, history, today) ==
    [tracked |-> FALSE, transactions |-> transactions, history |-> history,
     today |-> today]

\* The indices of the accounts of tier t named n.
AccountsNamed(t, n) == {i \in 1..Len(t.accounts) : t.accounts[i].name = n}

\* The body of the loop of process_due for the transaction at index i:
\* st is [plan, transactions, history, processed].
process_one(st, i, today) ==
    LET trans == st.transactions[i]
        found == by_name(st.plan, trans.tier_name)
    IN  IF ~trans.enabled \/ IsoAfter(trans.next_date, today) THEN st
        ELSE IF found.raised # "none" THEN st
        ELSE IF AccountsNamed(st.plan.tiers[found.tier], trans.account_name) = {} THEN st
        ELSE
            LET k       == found.tier
                hits    == AccountsNamed(st.plan.tiers[k], trans.account_name)
                j       == CHOOSE x \in hits : \A y \in hits : x <= y
                balance == st.plan.tiers[k].accounts[j].balance + trans.amount
                paid    == [st EXCEPT
                              !.plan = Plan([st.plan.tiers EXCEPT
                                               ![k].accounts[j].balance = balance]),
                              !.history = Append(@,
                                  [tier_name |-> trans.tier_name,
                                   account_name |-> trans.account_name,
                                   amount |-> trans.amount, balance_after |-> balance,
                                   transaction_type |-> "recurring"])]
                next    == calculate_next_date(trans.next_date, trans.frequency)
            IN  IF next = None THEN paid
                ELSE [paid EXCEPT !.transactions[i].next_date = next[1],
                                  !.processed = Append(@, trans.name)]

RECURSIVE process_from(_, _, _)
process_from(st, i, today) ==
    IF i > Len(st.transactions) THEN st
    ELSE process_from(process_one(st, i, today), i + 1, today)

\* RecurringManager.process_due(plan, history) on the day `today`.
process_due(p, transactions, history, today) ==
    process_from([plan |-> p, transactions |-> transactions, history |-> history,
                  processed |-> <<>>], 1, today)

Frequencies == {"daily", "weekly", "biweekly", "monthly", "quarterly", "annually", "other"}

\* Days on which a transaction may fall due: inside a month, at the end of
\* a month of 31 and of 30 days, and on a leap day.
DueDates == {Date(2024, 1, 15), Date(2024, 1, 31), Date(2024, 2, 29), Date(2024, 11, 30)}

\* The days on which process_due runs.
Today == {Date(2024, 1, 20), Date(2024, 3, 1), Date(2024, 12, 1)}

RecurringPlan ==
    Plan(<<Tier("Tier 1", "Buffer", Cents(2), 1,
                <<Account("acct1", 0, 0, "", 1, None)>>, None)>>)

RecurringTransactions ==
    {RecurringTransaction("pay", "Tier 1", account_name, amount, frequency, next_date,
                          enabled) :
        account_name \in {"acct1", "acct2"}, amount \in {Cents(1), -Cents(1)},
        frequency \in Frequencies, next_date \in DueDates, enabled \in BOOLEAN}

InitRecurring ==
    /\ plan = RecurringPlan
    /\ \E trans \in RecurringTransactions, today \in Today :
        app = Recurring(<<trans>>, <<>>, today)
    /\ pc = "idle"
    /\ arg = [tier |-> 0, amount |-> 0, months |-> 0]
    /\ ret = <<>>
    /\ raised = "none"

\* recurring.process_due(plan, history); arg keeps the plan and the
\* transactions as they were.
ProcessDue ==
    /\ pc = "idle"
    /\ \A k \in 1..Len(plan.tiers) : \A j \in 1..Len(plan.tiers[k].accounts) :
        /\ plan.tiers[k].accounts[j].balance < Cents(MaxAmount)
        /\ plan.tiers[k].accounts[j].balance > -Cents(MaxAmount)
    /\ LET r == process_due(plan, app.transactions, app.history, app.today)
       IN  /\ plan' = r.plan
           /\ app' = [app EXCEPT !.transactions = r.transactions, !.history = r.history]
           /\ ret' = r.processed
    /\ pc' = "process_due"
    /\ arg' = [before |-> plan, transactions |-> app.transactions]
    /\ raised' = "none"

\* A later day begins.
DayPasses ==
    /\ pc = "idle"
    /\ \E today \in Today :
        /\ IsoAfter(today, app.today)
        /\ app' = [app EXCEPT !.today = today]
    /\ UNCHANGED <<plan, pc, arg, ret, raised>>

NextRecurring ==
    \/ ProcessDue
    \/ DayPasses
    \/ Return

SpecRecurring == InitRecurring /\ [][NextRecurring]_vars

\* ------------------------------------------------------------------ claims
RECURSIVE SumAmounts(_)
\* The sum of the amounts (the last component) of a list of moves.
SumAmounts(moves) ==
    IF moves = <<>> THEN 0
    ELSE moves[1][Len(moves[1])] + SumAmounts(Tail(moves))

\* The moves of a Tier.allocate_into_accounts result that go to account `name`.
MovesTo(moves, name) == SelectSeq(moves, LAMBDA m : m[1] = name)

WholeCents(x) == x % MillsPerCent = 0

\* The tier of the last allocate_into_accounts call.
CalledTier == plan.tiers[arg.tier]

Returned(op) == pc = op /\ raised = "none"

\* C1: for a tier with no caps and no preferred account, allocate_into_accounts
\* returns one entry per account, in account order, each amount * weight /
\* (sum of weights) rounded to cents; here on the scenario of the claim: two
\* accounts of weights 2 and 1 and an amount of 300 dollars yield
\* [(acct1, 200.00), (acct2, 100.00)].
C1_WeightedSplitScenario ==
    ( /\ Returned("allocate_into_accounts")
      /\ arg.amount = Cents(300 * 100)
      /\ CalledTier.preferred_account = None
      /\ uncapped(CalledTier)
      /\ Len(CalledTier.accounts) = 2
      /\ CalledTier.accounts[1].alloc_weight = 2
      /\ CalledTier.accounts[2].alloc_weight = 1 )
    => ret = << <<"acct1", Cents(200 * 100)>>, <<"acct2", Cents(100 * 100)>> >>

\* C2: in one allocate_into_accounts call, the amounts assigned to an account
\* that has a cap sum to at most its remaining room at call time; stated here
\* for a tier of one account and for rooms and amounts in whole cents.
C2_WithinRoom ==
    ( /\ Returned("allocate_into_accounts")
      /\ Len(CalledTier.accounts) = 1
      /\ WholeCents(arg.amount) )
    => \A i \in 1..Len(CalledTier.accounts) :
          LET a == CalledTier.accounts[i]
          IN  (a.account_target # None /\ WholeCents(Val(remaining_room(a))))
              => SumAmounts(MovesTo(ret, a.name)) <= Val(remaining_room(a))

\* C3: for a non-negative amount in whole cents, the amounts returned by
\* allocate_into_accounts, allocation_plan and allocation_plan_detailed sum to
\* at most the amount; stated here for plans whose tiers hold at most one
\* account each (no weighted share is taken, so nothing rounds half-way).
C3_AtMostAmount ==
    ( /\ pc \in {"allocate_into_accounts", "allocation_plan", "allocation_plan_detailed"}
      /\ raised = "none"
      /\ \A k \in 1..Len(plan.tiers) : Len(plan.tiers[k].accounts) <= 1
      /\ arg.amount >= 0
      /\ WholeCents(arg.amount) )
    => SumAmounts(ret) <= arg.amount

\* The total remaining room of the tier is at least x (an uncapped account has
\* unbounded room).
RECURSIVE SumRoom(_)
SumRoom(accounts) ==
    IF accounts = <<>> THEN 0
    ELSE Val(remaining_room(accounts[1])) + SumRoom(Tail(accounts))
RoomAtLeast(t, x) ==
    \/ \E i \in 1..Len(t.accounts) : t.accounts[i].account_target = None
    \/ SumRoom(t.accounts) >= x

\* Three uncapped accounts of weight 1: a share is a third of a whole number of
\* cents, never half-way.
ThreeEqualAccounts(t) ==
    /\ Len(t.accounts) = 3
    /\ uncapped(t)
    /\ \A i \in 1..3 : t.accounts[i].alloc_weight = 1

\* C4: allocate_into_accounts on a tier with an account assigns exactly the
\* amount whenever the total remaining room is at least the amount; stated
\* here for amounts in whole cents and three uncapped accounts of equal weight.
C4_ExactWhenRoom ==
    ( /\ Returned("allocate_into_accounts")
      /\ ThreeEqualAccounts(CalledTier)
      /\ arg.amount >= 0
      /\ WholeCents(arg.amount)
      /\ RoomAtLeast(CalledTier, arg.amount) )
    => SumAmounts(ret) = arg.amount

\* ---- the tier-level waterfall, stated from the fields of the plan
NTiers == Len(plan.tiers)

\* The place of tier k in priority order: ascending priority, ties in plan order.
Rank(k) ==
    1 + Cardinality({j \in 1..NTiers :
            \/ plan.tiers[j].priority < plan.tiers[k].priority
            \/ plan.tiers[j].priority = plan.tiers[k].priority /\ j < k})

\* The tier indices in priority order.
ByRank == [r \in 1..NTiers |-> CHOOSE k \in 1..NTiers : Rank(k) = r]

RECURSIVE SumGaps(_)
\* The sum of the gaps of a set of tier indices.
SumGaps(ks) ==
    IF ks = {} THEN 0
    ELSE LET k == CHOOSE x \in ks : TRUE
         IN  gap(plan.tiers[k]) + SumGaps(ks \ {k})

\* The gaps of the tiers before tier k in priority order.
PriorGaps(k) == SumGaps({j \in 1..NTiers : Rank(j) < Rank(k)})

\* The cash left when tier k is reached, and after every tier.
CashAt(k) == Max(0, arg.amount) - PriorGaps(k)
Leftover == Max(0, arg.amount) - SumGaps(1..NTiers)

\* The first growth tier in priority order, if any.
GrowthIndices == {k \in 1..NTiers : is_growth(plan.tiers[k])}
FirstGrowth == CHOOSE k \in GrowthIndices : \A j \in GrowthIndices : Rank(k) <= Rank(j)

\* What tier k was given: the sum of its entries (tier names are unique).
Received(k) == SumAmounts(MovesTo(ret, plan.tiers[k].name))

PlanInWholeCents ==
    /\ WholeCents(arg.amount)
    /\ \A k \in 1..NTiers : WholeCents(gap(plan.tiers[k]))

\* C5 as claimed: allocation_plan gives each tier with a positive gap
\* min(gap, amount minus the gaps of all tiers before it), and a tier is given a
\* positive amount only if every tier before it was given its whole gap;
\* stated for gaps and amounts in whole cents.
C5_WaterfallOnly ==
    (Returned("allocation_plan") /\ PlanInWholeCents)
    => \A k \in 1..NTiers :
          /\ gap(plan.tiers[k]) > 0
                => Received(k) = Max(0, Min(gap(plan.tiers[k]), CashAt(k)))
          /\ Received(k) > 0
                => \A j \in 1..NTiers :
                      Rank(j) < Rank(k) => Received(j) = gap(plan.tiers[j])

\* The entries of the waterfall: in priority order, a tier with a positive gap
\* that is reached with cash left gets min(gap, cash left), rounded to cents.
WaterfallEntries(ups) ==
    LET reached == SelectSeq(ByRank,
                       LAMBDA k : gap(plan.tiers[k]) > 0 /\ CashAt(k) > 0)
    IN  [i \in 1..Len(reached) |->
            <<plan.tiers[reached[i]].name,
              round2(Min(gap(plan.tiers[reached[i]]), CashAt(reached[i])), 1, ups)>>]

\* The entry of the leftover: to the first growth tier, when cash is left after
\* every gap.
LeftoverEntries(ups) ==
    IF Leftover > 0 /\ GrowthIndices # {}
    THEN << <<plan.tiers[FirstGrowth].name, round2(Leftover, 1, ups)>> >>
    ELSE <<>>

\* The moves of a positive amount.
Positive(moves) == SelectSeq(moves, LAMBDA m : m[Len(m)] > 0)

\* C5 (amended): apart from entries of amount 0.00, allocation_plan returns the
\* waterfall entries, one per tier with a positive gap that is reached with
\* cash left, each min(gap, amount minus the gaps of the tiers before it)
\* rounded to cents, followed by one more entry giving the leftover to the
\* first growth tier when cash is left after every gap.
C5_WaterfallThenLeftover ==
    Returned("allocation_plan")
    => \E ups \in HalfWays :
          Positive(ret) = Positive(WaterfallEntries(ups) \o LeftoverEntries(ups))

\* C5 witness: two tiers are given cash by the waterfall, the second one less
\* than its gap (as in the scenario: A is filled, B takes the rest).
C5_Witness ==
    /\ Returned("allocation_plan")
    /\ PlanInWholeCents
    /\ Len(ret) = 2
    /\ Leftover < 0
    /\ plan.tiers[ByRank[1]].priority < plan.tiers[ByRank[2]].priority
    /\ ret[1][1] = plan.tiers[ByRank[1]].name
    /\ ret[1][2] = gap(plan.tiers[ByRank[1]])
    /\ ret[2][1] = plan.tiers[ByRank[2]].name
    /\ ret[2][2] > 0
    /\ ret[2][2] < gap(plan.tiers[ByRank[2]])

\* The tier named n (tier names are unique in the plans of this model).
TierIndex(n) == CHOOSE k \in 1..NTiers : plan.tiers[k].name = n

\* C6 as claimed: every entry (tier, amt) of allocation_plan has amt at most the
\* tier's gap at call time; stated for gaps and amounts in whole cents.
C6_EveryEntryWithinGap ==
    (Returned("allocation_plan") /\ PlanInWholeCents)
    => \A i \in 1..Len(ret) : ret[i][2] <= gap(plan.tiers[TierIndex(ret[i][1])])

\* x rounded up to whole cents.
CeilCents(x) == Cents((x + MillsPerCent - 1) \div MillsPerCent)

\* The number of entries that carry the leftover.
LeftoverCount == IF Leftover > 0 /\ GrowthIndices # {} THEN 1 ELSE 0

\* C6 (amended): every entry of allocation_plan other than the trailing entry
\* that carries the cash left after every gap to the growth tier has amt at
\* most the tier's gap at call time, rounded up to whole cents.
C6_WaterfallEntryWithinGap ==
    Returned("allocation_plan")
    => /\ LeftoverCount <= Len(ret)
       /\ \A i \in 1..(Len(ret) - LeftoverCount) :
             ret[i][2] <= CeilCents(gap(plan.tiers[TierIndex(ret[i][1])]))

\* C6 witness: a waterfall entry that fills a gap is followed by the leftover
\* entry, which is larger than the gap of the tier it goes to.
C6_Witness ==
    /\ Returned("allocation_plan")
    /\ LeftoverCount = 1
    /\ Len(ret) >= 2
    /\ ret[1][2] = gap(plan.tiers[TierIndex(ret[1][1])])
    /\ ret[Len(ret)][2] > gap(plan.tiers[TierIndex(ret[Len(ret)][1])])

\* Entry i comes no later than entry j in priority order: a smaller priority
\* number, or the same one and no later in Plan.tiers.
InPriorityOrder(m1, m2) ==
    LET k1 == TierIndex(m1[1])
        k2 == TierIndex(m2[1])
    IN  \/ plan.tiers[k1].priority < plan.tiers[k2].priority
        \/ plan.tiers[k1].priority = plan.tiers[k2].priority /\ k1 <= k2

\* C8 as claimed: in the lists of allocation_plan and allocation_plan_detailed
\* the tiers appear in non-decreasing priority order, tiers of equal priority in
\* their order in Plan.tiers; stated for gaps and amounts in whole cents.
C8_PriorityOrder ==
    ( /\ pc \in {"allocation_plan", "allocation_plan_detailed"}
      /\ raised = "none"
      /\ PlanInWholeCents )
    => \A i, j \in 1..Len(ret) : i < j => InPriorityOrder(ret[i], ret[j])

\* C8 (amended): the lists are in that order up to the entries appended last
\* for what remains after the walk over the tiers: these go to the first growth
\* tier, whatever its priority (one entry in the list of allocation_plan).
C8_PriorityOrderBeforeLeftover ==
    (pc \in {"allocation_plan", "allocation_plan_detailed"} /\ raised = "none")
    => \E n \in 0..Len(ret) :
          /\ \A i, j \in 1..n : i < j => InPriorityOrder(ret[i], ret[j])
          /\ n < Len(ret) => GrowthIndices # {}
          /\ \A i \in (n + 1)..Len(ret) : ret[i][1] = plan.tiers[FirstGrowth].name
          /\ pc = "allocation_plan" => Len(ret) - n <= 1

\* C8 witness: in the detailed list the entry of a tier is followed by the
\* leftover entry of a growth tier of strictly smaller priority number.
C8_Witness ==
    /\ Returned("allocation_plan_detailed")
    /\ PlanInWholeCents
    /\ Len(ret) = 2
    /\ ret[1][3] > 0
    /\ ret[2][3] > 0
    /\ plan.tiers[TierIndex(ret[1][1])].priority > plan.tiers[TierIndex(ret[2][1])].priority

\* C7 as claimed: when cash is left after every gap, allocation_plan and
\* allocation_plan_detailed give exactly the leftover to the first growth tier
\* (on top of its own gap); with no growth tier the returned total is the sum
\* of the gaps.  Stated for gaps and amounts in whole cents and tiers of three
\* uncapped accounts of equal weight.
C7_LeftoverToGrowth ==
    ( /\ pc \in {"allocation_plan", "allocation_plan_detailed"}
      /\ raised = "none"
      /\ PlanInWholeCents
      /\ \A k \in 1..NTiers : ThreeEqualAccounts(plan.tiers[k])
      /\ Leftover > 0 )
    => IF GrowthIndices # {}
       THEN Received(FirstGrowth) = gap(plan.tiers[FirstGrowth]) + Leftover
       ELSE SumAmounts(ret) = SumGaps(1..NTiers)

\* C9 as claimed: for every tier with an account, the account-level amounts of
\* allocation_plan_detailed sum to what allocation_plan gives the tier.  Stated
\* for gaps and amounts in whole cents (allocation_plan then rounds nothing
\* half-way) and tiers of three uncapped accounts of equal weight.
C9_DetailedDecomposesPlan ==
    ( /\ Returned("allocation_plan_detailed")
      /\ PlanInWholeCents
      /\ \A k \in 1..NTiers : ThreeEqualAccounts(plan.tiers[k]) )
    => \A k \in 1..NTiers :
          Received(k) = SumAmounts(MovesTo(allocation_plan(plan, arg.amount, {}),
                                           plan.tiers[k].name))

ReceivedIn(moves, k) == SumAmounts(MovesTo(moves, plan.tiers[k].name))

\* The whole gap of tier k was assigned by the call: the walk reached it with
\* cash for all of its gap, or its entries sum to its gap.
WholeGapAssigned(k) ==
    \/ CashAt(k) >= gap(plan.tiers[k])
    \/ Received(k) >= gap(plan.tiers[k])

\* The half-way values that shares of an amount b can take and shares of a
\* smaller amount a cannot, in a plan where shares are taken at all.
HalfWaysBetween(a, b) ==
    IF \E k \in 1..NTiers : Len(plan.tiers[k].accounts) >= 2
    THEN SUBSET {c \in 0..MaxAmount - 2 :
                    2 * a <= 2 * Cents(c) + MillsPerCent /\ 2 * Cents(c) + MillsPerCent < 2 * b}
    ELSE {{}}

excess(t) == Max(0, total(t) - t.target)

\* The amounts a list of rebalancing moves takes out of and puts into the tier
\* named n.
MovedOut(moves, n) == SumAmounts(SelectSeq(moves, LAMBDA m : m[1][1] = n))
MovedIn(moves, n) == SumAmounts(SelectSeq(moves, LAMBDA m : m[1][2] = n))

RECURSIVE SumMoved(_, _)
\* The sum over a set of tier indices of what the moves take out of (out = TRUE)
\* or put into (out = FALSE) each tier.
SumMoved(ks, out) ==
    IF ks = {} THEN 0
    ELSE LET k == CHOOSE x \in ks : TRUE
         IN  (IF out THEN MovedOut(ret, plan.tiers[k].name)
              ELSE MovedIn(ret, plan.tiers[k].name))
             + SumMoved(ks \ {k}, out)

\* C12: rebalancing_moves returns the empty list whenever no tier has gap > 0
\* or no tier has total > target.
C12_NothingToMove ==
    ( /\ Returned("rebalancing_moves")
      /\ \/ \A k \in 1..NTiers : gap(plan.tiers[k]) <= 0
         \/ \A k \in 1..NTiers : total(plan.tiers[k]) <= plan.tiers[k].target )
    => ret = <<>>

\* C12 witness: a tier is overfunded, none is underfunded, and nothing is moved.
C12_Witness ==
    /\ Returned("rebalancing_moves")
    /\ \E k \in 1..NTiers : total(plan.tiers[k]) > plan.tiers[k].target
    /\ \A k \in 1..NTiers : gap(plan.tiers[k]) <= 0
    /\ \E k \in 1..NTiers : plan.tiers[k].target > 0
    /\ ret = <<>>

\* Every move goes from a tier with total > target to a tier with gap > 0.
MovesFromOverToUnder ==
    \A i \in 1..Len(ret) :
       /\ total(plan.tiers[TierIndex(ret[i][1][1])]) > plan.tiers[TierIndex(ret[i][1][1])].target
       /\ gap(plan.tiers[TierIndex(ret[i][1][2])]) > 0

\* No tier is both a source and a destination, and what leaves the sources is
\* what reaches the destinations.
MovesKeepTheTotal ==
    /\ \A k \in 1..NTiers :
          MovedOut(ret, plan.tiers[k].name) = 0 \/ MovedIn(ret, plan.tiers[k].name) = 0
    /\ SumMoved(1..NTiers, TRUE) = SumMoved(1..NTiers, FALSE)

\* C13 as claimed: in the list of rebalancing_moves, what is moved out of a tier
\* is at most its excess and what is moved into it at most its gap; every move
\* goes from a tier with total > target to a tier with gap > 0, no tier is both
\* source and destination, and the moves leave the total reserves unchanged.
C13_MovesWithinExcessAndGap ==
    Returned("rebalancing_moves")
    => /\ \A k \in 1..NTiers :
             /\ MovedOut(ret, plan.tiers[k].name) <= excess(plan.tiers[k])
             /\ MovedIn(ret, plan.tiers[k].name) <= gap(plan.tiers[k])
       /\ MovesFromOverToUnder
       /\ MovesKeepTheTotal

\* C13 (amended): what is moved out of a tier exceeds its excess by at most
\* half a cent, and what is moved into it exceeds its gap by at most half a
\* cent (each transfer is rounded to cents); the rest as claimed.
C13_MovesWithinRoundedExcessAndGap ==
    Returned("rebalancing_moves")
    => /\ \A k \in 1..NTiers :
             /\ 2 * MovedOut(ret, plan.tiers[k].name) <= 2 * excess(plan.tiers[k]) + MillsPerCent
             /\ 2 * MovedIn(ret, plan.tiers[k].name) <= 2 * gap(plan.tiers[k]) + MillsPerCent
       /\ MovesFromOverToUnder
       /\ MovesKeepTheTotal

\* C13 witness: one overfunded tier feeds two underfunded tiers, the second
\* with less than its gap.
C13_Witness ==
    /\ Returned("rebalancing_moves")
    /\ Len(ret) = 2
    /\ ret[1][1][1] = ret[2][1][1]
    /\ ret[1][1][2] # ret[2][1][2]
    /\ ret[1][2] = gap(plan.tiers[TierIndex(ret[1][1][2])])
    /\ ret[2][2] < gap(plan.tiers[TierIndex(ret[2][1][2])])

\* ---- the plan under edits
\* C14 as claimed: each tier's preferred_account is unset or the name of an
\* account currently in that tier, in every state the editing handlers reach.
C14_PreferredIsAnAccount ==
    \A k \in 1..NTiers :
       \/ plan.tiers[k].preferred_account = None
       \/ \E i \in 1..Len(plan.tiers[k].accounts) :
             Some(plan.tiers[k].accounts[i].name) = plan.tiers[k].preferred_account

\* Tier t holds an account named n.
HasAccount(t, n) == \E i \in 1..Len(t.accounts) : t.accounts[i].name = n

\* C15: set_preferred(name) with a name that matches no account of the tier
\* raises KeyError and leaves preferred_account and every other field as they
\* were; by_name(name) with a name that matches no tier raises KeyError and
\* changes nothing.
C15_LookupFailure ==
    [][ /\ ( /\ pc' = "set_preferred"
             /\ arg'.name # None
             /\ ~HasAccount(plan.tiers[arg'.tier], Val(arg'.name)) )
           => (raised' = "KeyError" /\ plan' = plan)
        /\ (pc' = "by_name" /\ TiersNamed(plan, arg'.name) = {})
           => (raised' = "KeyError" /\ plan' = plan) ]_vars

\* C15 witness: set_preferred has raised KeyError on a tier that holds another
\* account, which is its preferred account still.
C15_Witness ==
    /\ pc = "set_preferred"
    /\ raised = "KeyError"
    /\ arg.name # None
    /\ plan.tiers[arg.tier].preferred_account # None
    /\ plan.tiers[arg.tier].preferred_account # arg.name
    /\ HasAccount(plan.tiers[arg.tier], Val(plan.tiers[arg.tier].preferred_account))

\* C16 as claimed: on every plan reached through load_plan,
\* add_or_update_account, set_preferred and the removal of an account,
\* allocate_into_accounts, allocation_plan and allocation_plan_detailed return
\* a list and never raise, whatever the amount.
C16_AllocationNeverRaises ==
    pc \in {"allocate_into_accounts", "allocation_plan", "allocation_plan_detailed"}
    => raised = "none"

\* C17: for any amount <= 0, allocate_into_accounts, allocation_plan and
\* allocation_plan_detailed return the empty list, a negative amount as 0 and
\* with no error; allocate_into_accounts also returns the empty list for any
\* amount when the tier has no accounts.
C17_NothingForNoCash ==
    /\ ( /\ pc \in {"allocate_into_accounts", "allocation_plan", "allocation_plan_detailed"}
         /\ arg.amount <= 0 )
       => (ret = <<>> /\ raised = "none")
    /\ (pc = "allocate_into_accounts" /\ CalledTier.accounts = <<>>)
       => (ret = <<>> /\ raised = "none")

\* C17 witness: allocation_plan was given a negative amount on a plan with a
\* gap to fill and a growth tier, and returned nothing.
C17_Witness ==
    /\ Returned("allocation_plan")
    /\ arg.amount < 0
    /\ \E k \in 1..NTiers : gap(plan.tiers[k]) > 0
    /\ GrowthIndices # {}
    /\ ret = <<>>

\* C18: saving a plan and loading it back (save_plan then load_plan, and
\* plan_to_dict then dict_to_plan) yields the tiers and accounts in the same
\* order with every field of every tier and account equal to the original, an
\* absent cap staying absent and a cap of 0 staying 0.
C18_RoundTrip ==
    pc \in {"load_plan", "dict_to_plan"}
    => /\ Len(ret[1].tiers) = NTiers
       /\ \A k \in 1..NTiers :
             LET t == plan.tiers[k]
                 u == ret[1].tiers[k]
             IN  /\ u.name = t.name /\ u.purpose = t.purpose
                 /\ u.target = t.target /\ u.priority = t.priority
                 /\ u.preferred_account = t.preferred_account
                 /\ Len(u.accounts) = Len(t.accounts)
                 /\ \A i \in 1..Len(t.accounts) :
                       LET a == t.accounts[i]
                           b == u.accounts[i]
                       IN  /\ b.name = a.name /\ b.balance = a.balance
                           /\ b.apy_pct = a.apy_pct /\ b.notes = a.notes
                           /\ b.alloc_weight = a.alloc_weight
                           /\ b.account_target = a.account_target

\* C18 witness: a plan was loaded back whose tier holds an account with a cap of
\* 0 before an account without a cap.
C18_Witness ==
    /\ pc = "load_plan"
    /\ NTiers = 1
    /\ Len(plan.tiers[1].accounts) = 2
    /\ plan.tiers[1].accounts[1].account_target = Some(0)
    /\ plan.tiers[1].accounts[2].account_target = None
    /\ ret[1].tiers[1].accounts[1].account_target = Some(0)
    /\ ret[1].tiers[1].accounts[2].account_target = None

\* C19: in every state reached by creating, editing, renaming, deleting and
\* importing tiers, no two tiers of the plan have the same name.
C19_TierNamesUnique ==
    \A j \in 1..NTiers : \A k \in 1..NTiers :
        plan.tiers[j].name = plan.tiers[k].name => j = k

\* ---- accounts that earn nothing
\* The account has no money in it or no yield.
EarnsNothing(a) == a.balance <= 0 \/ a.apy_pct <= 0

\* C20: expected_growth is exactly 0 for an account with balance <= 0 or
\* yield <= 0 whatever the month count, and for any account when months <= 0;
\* forecast reports 0 for a tier all of whose accounts are such.
C20_NoGrowthWithoutMoneyOrYield ==
    /\ pc = "expected_growth"
       => LET a == plan.tiers[arg.tier].accounts[arg.account]
          IN  EarnsNothing(a) \/ arg.months <= 0 => ret = [num |-> 0, den |-> 1]
    /\ pc = "forecast"
       => \A k \in 1..NTiers :
             (\/ arg.months <= 0
              \/ \A i \in 1..Len(plan.tiers[k].accounts) :
                    EarnsNothing(plan.tiers[k].accounts[i]))
             => ret[plan.tiers[k].name] = [num |-> 0, den |-> 1]

\* C20 witness: a forecast over a positive month count of a plan whose first
\* tier holds an overdrawn account with a yield and a funded account with a
\* negative yield, and whose other tier grows.
C20_Witness ==
    /\ pc = "forecast"
    /\ arg.months > 0
    /\ NTiers = 2
    /\ Len(plan.tiers[1].accounts) = 2
    /\ plan.tiers[1].accounts[1].balance < 0 /\ plan.tiers[1].accounts[1].apy_pct > 0
    /\ plan.tiers[1].accounts[2].balance > 0 /\ plan.tiers[1].accounts[2].apy_pct < 0
    /\ ret[plan.tiers[1].name].num = 0
    /\ ret[plan.tiers[2].name].num > 0

\* ---- compounding month by month
RECURSIVE Compounded(_, _, _)
\* The growth of the balance b after the months, over 1200 ^ months: every
\* month adds the yield of a month on the balance and on the growth so far.
Compounded(b, r, months) ==
    IF months = 0 THEN 0
    ELSE Compounded(b, r, months - 1) * (1200 + r) + b * r * 1200 ^ (months - 1)

\* A growth figure over the denominator 1200 ^ months.
Over(g, months) == g.num * ((1200 ^ months) \div g.den)

RECURSIVE SumOver(_, _)
SumOver(accounts, months) ==
    IF accounts = <<>> THEN 0
    ELSE Over(expected_growth(accounts[1], months), months) + SumOver(Tail(accounts), months)

\* The account of the scenario: 10000.00 at 6 percent.
ScenarioAccount == Account("acct1", Cents(1000000), 6, "", 1, None)

\* C21: for balance B > 0, yield r > 0 and m > 0 months expected_growth is
\* B * ((1 + r/1200)^m - 1), the balance compounded month by month less the
\* balance; forecast maps each tier to the sum of its accounts' growth; 10000
\* at 6 percent over 12 months grows by 616.78, within a cent.
C21_CompoundedMonthly ==
    /\ pc = "expected_growth"
       => LET a == plan.tiers[arg.tier].accounts[arg.account]
              e == expected_growth_enclosure(a, arg.months)
          IN  a.balance > 0 /\ a.apy_pct > 0 /\ arg.months > 0
              => /\ ret.den = 1200 ^ arg.months
                 /\ ret.num = Compounded(a.balance, a.apy_pct, arg.months)
                 /\ e.low <= ret.num \div ret.den
                 /\ (ret.num + ret.den - 1) \div ret.den <= e.high
    /\ pc = "forecast" /\ arg.months > 0
       => \A k \in 1..NTiers :
             Over(ret[plan.tiers[k].name], arg.months)
                = SumOver(plan.tiers[k].accounts, arg.months)
    /\ LET e == expected_growth_enclosure(ScenarioAccount, 12)
       IN  /\ e.low > Cents(61677)
           /\ e.high < Cents(61679)

\* C21 witness: a forecast over two months of a tier of two accounts that both
\* grow.
C21_Witness ==
    /\ pc = "forecast"
    /\ arg.months = 2
    /\ Len(plan.tiers[1].accounts) = 2
    /\ \A i \in 1..2 : expected_growth(plan.tiers[1].accounts[i], 2).num > 0
    /\ ret[plan.tiers[1].name].num
          = 2 * (Cents(1) * (1206 * 1206 - 1200 * 1200))

\* ---- the passes of the loops
\* C22: every pass of the weighted-split loop strictly decreases the remaining
\* amount or ends the loop, every iteration of the rebalancing loop advances
\* one of the two cursors at least, and rebalancing returns at most (number of
\* overfunded tiers + number of underfunded tiers - 1) moves.
C22_LoopsAdvance ==
    /\ [][pc = "weighted_split" /\ pc' = "weighted_split"
            => arg'.remaining < arg.remaining]_vars
    /\ [][pc = "rebalance_walk" /\ pc' = "rebalance_walk"
            => arg'.st.i > arg.st.i \/ arg'.st.j > arg.st.j]_vars
    /\ [](pc = "rebalancing_moves" /\ ret # <<>>
            => Len(ret) <= Len(over_list(plan)) + Len(under_list(plan)) - 1)

\* ---- applying the previewed moves
RECURSIVE AllApplied(_, _)
\* The plan with every move of the list added to its account.
AllApplied(p, moves) ==
    IF moves = <<>> THEN p
    ELSE AllApplied(apply_move(p, moves[1][1], moves[1][2], moves[1][3]).plan, Tail(moves))

\* C23: when apply_allocation returns, either every pending move has been
\* added to its account's balance, with one transaction logged per move and
\* the plan marked as changed, or no account balance has changed; and a call
\* that changed a balance leaves nothing pending to be added again.
C23_AppliedWhollyOrNotAtAll ==
    /\ [](pc = "apply_allocation"
            => \/ /\ plan = AllApplied(arg.before, arg.pending)
                  /\ Len(app.transactions) = Len(arg.pending)
                  /\ app.data_changed
               \/ plan = arg.before)
    /\ [][pc' = "apply_allocation" /\ plan' # plan => app'.pending_moves = <<>>]_vars

\* ---- the preferred account first
\* The first account that carries the name of the tier's preferred account.
PreferredAccount(t) ==
    SelectSeq(t.accounts, LAMBDA a : Some(a.name) = t.preferred_account)[1]

\* The call was made with a positive amount on a tier whose preferred account
\* exists and has room.
PreferredHasRoom ==
    /\ Returned("allocate_into_accounts")
    /\ arg.amount > 0
    /\ CalledTier.preferred_account # None
    /\ \E i \in 1..Len(CalledTier.accounts) :
          Some(CalledTier.accounts[i].name) = CalledTier.preferred_account
    /\ room_positive(PreferredAccount(CalledTier))

\* The moves that go to other accounts than the one named.
MovesNotTo(moves, name) == SelectSeq(moves, LAMBDA m : m[1] # name)

\* The room is at least the amount.
FitsRoom(a, x) == remaining_room(a) = None \/ x <= Val(remaining_room(a))

\* v is x rounded to whole cents.
RoundedToCents(v, x) ==
    /\ WholeCents(v)
    /\ 2 * (v - x) <= MillsPerCent
    /\ 2 * (x - v) <= MillsPerCent

\* C24 as stated: the first entry is (preferred account, min(amount, room)),
\* and no other account receives anything unless the amount exceeds the room.
C24_PreferredTakesMin ==
    PreferredHasRoom
    => LET pa == PreferredAccount(CalledTier)
       IN  /\ ret # <<>>
           /\ ret[1] = <<pa.name, min_room(arg.amount, pa)>>
           /\ FitsRoom(pa, arg.amount) => SumAmounts(MovesNotTo(ret, pa.name)) = 0

\* C24: with a preferred account that has room and a positive amount, the
\* first entry returned is (preferred account, min(amount, room) rounded to
\* cents), and no other account receives anything unless the amount exceeds
\* the room.
C24_PreferredTakesRoundedMin ==
    PreferredHasRoom
    => LET pa == PreferredAccount(CalledTier)
       IN  /\ ret # <<>>
           /\ ret[1][1] = pa.name
           /\ RoundedToCents(ret[1][2], min_room(arg.amount, pa))
           /\ FitsRoom(pa, arg.amount) => SumAmounts(MovesNotTo(ret, pa.name)) = 0

\* A capped preferred account took all of an amount within its room while
\* another account of the tier had room too.
C24_Witness ==
    /\ PreferredHasRoom
    /\ Len(CalledTier.accounts) = 2
    /\ PreferredAccount(CalledTier).name = "acct2"
    /\ PreferredAccount(CalledTier).account_target = Some(Cents(1))
    /\ room_positive(CalledTier.accounts[1])
    /\ arg.amount = Cents(1)
    /\ ret[1] = <<"acct2", Cents(1)>>
    /\ MovesNotTo(ret, "acct2") = <<>>

\* ---- the first-account fallback
\* What the walk assigns tier k: min(remaining, gap) when it is reached with
\* cash left and has a gap, else nothing.
Assigned(k) ==
    IF gap(plan.tiers[k]) > 0 /\ CashAt(k) > 0
    THEN Min(gap(plan.tiers[k]), CashAt(k)) ELSE 0

\* Tier k is assigned an amount of which allocate_into_accounts returns no
\* move, however its shares round.
NoSplit(k) ==
    /\ Assigned(k) > 0
    /\ \A ups \in SplitRoundings(plan.tiers[k], Assigned(k)) :
          allocate_into_accounts(plan.tiers[k], Assigned(k), ups)
              = [moves |-> <<>>, raised |-> "none"]

\* The entries of the walk alone are those of tier k: the leftover goes to
\* another tier or there is none.
NoLeftoverTo(k) == Leftover < 0 \/ GrowthIndices = {} \/ k # FirstGrowth

\* The amounts of the entries of tier k in a list of moves.
AmountsOf(moves, k) ==
    LET ms == MovesTo(moves, plan.tiers[k].name)
    IN  [i \in 1..Len(ms) |-> ms[i][Len(ms[i])]]

\* One account without a cap takes what the tier is assigned.
Undivided(t) ==
    /\ Len(t.accounts) = 1
    /\ uncapped(t)
    /\ t.accounts[1].alloc_weight > 0
    /\ t.preferred_account = None

\* The tiers after tier k in priority order that hold one uncapped account are
\* given what allocation_plan gives them.
LowerTiersAsInPlan(k) ==
    \E ups \in Roundings(plan, arg.amount, FALSE) :
        \A j \in 1..NTiers :
            (Rank(j) > Rank(k) /\ Undivided(plan.tiers[j]))
            => AmountsOf(ret, j) = AmountsOf(allocation_plan(plan, arg.amount, ups), j)

\* C25 as stated: a tier that is assigned amt > 0 and splits nothing has the
\* one entry (tier, first account, amt) if it has an account and none
\* otherwise, and the tiers after it are assigned what allocation_plan
\* assigns them.
C25_FallbackEntryOfAmt ==
    Returned("allocation_plan_detailed")
    => \A k \in 1..NTiers :
          (NoSplit(k) /\ NoLeftoverTo(k))
          => /\ MovesTo(ret, plan.tiers[k].name)
                  = IF plan.tiers[k].accounts = <<>> THEN <<>>
                    ELSE << <<plan.tiers[k].name, plan.tiers[k].accounts[1].name,
                              Assigned(k)>> >>
             /\ LowerTiersAsInPlan(k)

\* C25: a tier that is assigned amt > 0 and splits nothing has the one entry
\* (tier, first account, amt rounded to cents) if it has an account and none
\* otherwise, and the tiers after it are assigned what allocation_plan
\* assigns them.
C25_FallbackEntryOfRoundedAmt ==
    Returned("allocation_plan_detailed")
    => \A k \in 1..NTiers :
          (NoSplit(k) /\ NoLeftoverTo(k))
          => /\ IF plan.tiers[k].accounts = <<>>
                THEN MovesTo(ret, plan.tiers[k].name) = <<>>
                ELSE /\ Len(MovesTo(ret, plan.tiers[k].name)) = 1
                     /\ MovesTo(ret, plan.tiers[k].name)[1][2] = plan.tiers[k].accounts[1].name
                     /\ RoundedToCents(MovesTo(ret, plan.tiers[k].name)[1][3], Assigned(k))
             /\ LowerTiersAsInPlan(k)

\* C25 witness: the first tier's only account is full and takes the cent the
\* tier is assigned, and the next tier takes the other cent.
C25_Witness ==
    /\ Returned("allocation_plan_detailed")
    /\ NTiers = 2
    /\ NoSplit(1)
    /\ Len(plan.tiers[1].accounts) = 1
    /\ ~room_positive(plan.tiers[1].accounts[1])
    /\ Undivided(plan.tiers[2])
    /\ arg.amount = Cents(2)
    /\ ret = << <<"Tier 1", "acct1", Cents(1)>>, <<plan.tiers[2].name, "acct1", Cents(1)>> >>

\* ---- the order and the extent of the rebalancing walk
\* Balances and targets are in whole cents.
TiersInWholeCents ==
    \A k \in 1..NTiers : WholeCents(plan.tiers[k].target) /\ WholeCents(total(plan.tiers[k]))

RECURSIVE SumAmt(_)
\* The sum of the amounts of a list of (tier, amount) records.
SumAmt(list) == IF list = <<>> THEN 0 ELSE list[1].amt + SumAmt(Tail(list))

\* The place of the tier named n in a list of (tier, amount) records.
PlaceIn(list, n) == CHOOSE i \in 1..Len(list) : list[i].tier = n

\* The moves name their sources in the order of `over` and their destinations
\* in the order of `under`, and a tier takes part only once the tiers before
\* it in its list are exhausted.
WalkInOrder(over, under) ==
    /\ \A i \in 1..Len(ret) : \A j \in i..Len(ret) :
          /\ PlaceIn(over, ret[i][1][1]) <= PlaceIn(over, ret[j][1][1])
          /\ PlaceIn(under, ret[i][1][2]) <= PlaceIn(under, ret[j][1][2])
    /\ \A a \in 1..Len(over) : \A b \in a + 1..Len(over) :
          MovedOut(ret, over[b].tier) > 0 => MovedOut(ret, over[a].tier) = over[a].amt
    /\ \A a \in 1..Len(under) : \A b \in a + 1..Len(under) :
          MovedIn(ret, under[b].tier) > 0 => MovedIn(ret, under[a].tier) = under[a].amt

\* under_list holds the underfunded tiers in ascending priority, over_list the
\* overfunded tiers in the order of Plan.tiers.
ListsInOrder ==
    /\ \A a \in 1..Len(under_list(plan)) : \A b \in a..Len(under_list(plan)) :
          plan.tiers[TierIndex(under_list(plan)[a].tier)].priority
              <= plan.tiers[TierIndex(under_list(plan)[b].tier)].priority
    /\ \A a \in 1..Len(over_list(plan)) : \A b \in a..Len(over_list(plan)) :
          TierIndex(over_list(plan)[a].tier) <= TierIndex(over_list(plan)[b].tier)

\* C26: with balances and targets in whole cents, the amounts of
\* rebalancing_moves sum to min(total excess, total gap); the underfunded
\* tiers are served in ascending priority and the overfunded tiers are drained
\* in the order of Plan.tiers, each only once those before it are exhausted.
C26_GreedyWalk ==
    (Returned("rebalancing_moves") /\ TiersInWholeCents)
    => /\ SumAmounts(ret) = Min(SumAmt(over_list(plan)), SumAmt(under_list(plan)))
       /\ ListsInOrder
       /\ WalkInOrder(over_list(plan), under_list(plan))

\* C26 witness: the first tier of the plan feeds the last tier, which has the
\* lower priority number, and then the second tier with what is left, less than
\* its gap.
C26_Witness ==
    /\ Returned("rebalancing_moves")
    /\ TiersInWholeCents
    /\ plan.tiers[3].priority < plan.tiers[2].priority
    /\ Len(ret) = 2
    /\ ret[1] = << <<plan.tiers[1].name, plan.tiers[3].name>>, gap(plan.tiers[3])>>
    /\ ret[2][1] = <<plan.tiers[1].name, plan.tiers[2].name>>
    /\ ret[2][2] < gap(plan.tiers[2])
    /\ SumAmounts(ret) = excess(plan.tiers[1])

\* ---- the upsert
\* The account of the called tier that carries the name of the call, as it was
\* before the call (0 if there was none) and as it is now.
PlaceBefore ==
    IF \E i \in 1..Len(arg.before.accounts) : arg.before.accounts[i].name = arg.name
    THEN CHOOSE i \in 1..Len(arg.before.accounts) : arg.before.accounts[i].name = arg.name
    ELSE 0
Upserted ==
    CalledTier.accounts[IF PlaceBefore = 0 THEN Len(CalledTier.accounts) ELSE PlaceBefore]

\* Each supplied value is the one stored.
SuppliedStored ==
    /\ Upserted.name = arg.name
    /\ Upserted.balance = arg.balance
    /\ arg.apy_pct # None => Upserted.apy_pct = Val(arg.apy_pct)
    /\ arg.notes # "" => Upserted.notes = arg.notes
    /\ arg.alloc_weight # None => Upserted.alloc_weight = Val(arg.alloc_weight)
    /\ arg.account_target # None => Upserted.account_target = arg.account_target

\* What is not supplied stays as it was in the account that existed.
OmittedKept ==
    PlaceBefore # 0
    => LET was == arg.before.accounts[PlaceBefore]
       IN  /\ arg.apy_pct = None => Upserted.apy_pct = was.apy_pct
           /\ arg.notes = "" => Upserted.notes = was.notes
           /\ arg.alloc_weight = None => Upserted.alloc_weight = was.alloc_weight
           /\ arg.account_target = None => Upserted.account_target = was.account_target

\* The other accounts are as they were, in the same places; a new account is
\* the one added at the end.
OthersUnchanged ==
    /\ Len(CalledTier.accounts)
          = Len(arg.before.accounts) + (IF PlaceBefore = 0 THEN 1 ELSE 0)
    /\ \A i \in 1..Len(arg.before.accounts) :
          i # PlaceBefore => CalledTier.accounts[i] = arg.before.accounts[i]

AccountNamesUnique(t) ==
    \A i \in 1..Len(t.accounts) : \A j \in 1..Len(t.accounts) :
        t.accounts[i].name = t.accounts[j].name => i = j

\* C27 as claimed: add_or_update_account updates the account of that name in
\* place or appends exactly one account; every supplied value, a weight or a
\* yield of 0 included, is the value stored; what is not supplied is kept; the
\* other accounts are unchanged and the names stay unique.
C27_Upsert ==
    pc = "add_or_update_account"
    => /\ SuppliedStored
       /\ OmittedKept
       /\ OthersUnchanged
       /\ AccountNamesUnique(CalledTier)

\* ---- undo
\* C28 as claimed: after any handler that changed the plan, undo restores the
\* plan to the value it had before that handler ran; the undo stack never
\* holds more than 50 snapshots.
C28_UndoRestores ==
    /\ [][(plan' # plan /\ pc' # "undo")
            => (app'.undo_stack # <<>> /\ undo(app').plan = plan)]_vars
    /\ [](Len(app.undo_stack) <= UndoLimit)

\* C29: across process_due calls a transaction is applied exactly once per
\* due date: in one call the next_date of a transaction moves only if it was
\* enabled and due, and then to a strictly later date; every balance grows by
\* exactly the amounts of the transactions whose next_date moved, so a failed,
\* disabled or not-yet-due transaction changes no balance; and an enabled due
\* transaction whose account exists is one of those applied.
Due(trans) == trans.enabled /\ ~IsoAfter(trans.next_date, app.today)

Advanced(i) == app'.transactions[i].next_date # app.transactions[i].next_date

PaysInto(trans, k, j) ==
    /\ TiersNamed(plan, trans.tier_name) # {}
    /\ k = FirstNamed(plan, trans.tier_name)
    /\ AccountsNamed(plan.tiers[k], trans.account_name) # {}
    /\ \A x \in AccountsNamed(plan.tiers[k], trans.account_name) : j <= x
    /\ j \in AccountsNamed(plan.tiers[k], trans.account_name)

RECURSIVE PaidInto(_, _, _)
PaidInto(i, k, j) ==
    IF i = 0 THEN 0
    ELSE PaidInto(i - 1, k, j)
         + (IF Advanced(i) /\ PaysInto(app.transactions[i], k, j)
            THEN app.transactions[i].amount ELSE 0)

C29_AppliedOncePerDueDate ==
    [][pc' = "process_due" =>
        /\ Len(app'.transactions) = Len(app.transactions)
        /\ \A i \in 1..Len(app.transactions) :
            /\ Advanced(i) =>
                /\ Due(app.transactions[i])
                /\ IsoAfter(app'.transactions[i].next_date, app.transactions[i].next_date)
            /\ (Due(app.transactions[i])
                /\ \E k \in 1..Len(plan.tiers), j \in 1..MaxAccounts :
                     PaysInto(app.transactions[i], k, j))
               => Advanced(i)
        /\ \A k \in 1..Len(plan.tiers) : \A j \in 1..Len(plan.tiers[k].accounts) :
            plan'.tiers[k].accounts[j].balance
                = plan.tiers[k].accounts[j].balance
                  + PaidInto(Len(app.transactions), k, j)]_vars

\* C30: whenever data_changed is False the plan in memory is the plan last
\* written to CONFIG_PATH: every handler that alters the plan either sets
\* data_changed or saves.
C30_SavedWhenUnchanged == ~app.data_changed => save_plan(plan) = app.saved

====
